---- MODULE Spec2Model ----
(***************************************************************************)
(* geo-query-engine: the engine facade (GeoSearch), the two spatial index  *)
(* variants (SpatialIndex on rbush, StaticSpatialIndex on kdbush), the     *)
(* immutable query builder and its execution pipeline (QueryBuilder), the  *)
(* filter evaluator and the LRU result cache.                              *)
(*                                                                         *)
(* Units.  Latitudes and longitudes are whole centidegrees (1/100 degree), *)
(* radii are whole kilometres, distances are whole metres.  JavaScript     *)
(* values are tagged records: Num(n), Str(s), Arr(a), Undef.  A string is  *)
(* a sequence of character codes, so that the lexicographic order and the  *)
(* prefix / suffix / substring tests are computed, not assumed.  An        *)
(* optional field (x?: T) is the empty sequence when undefined and the     *)
(* one-element sequence <<v>> when set.                                    *)
(***************************************************************************)
EXTENDS Integers, Sequences, FiniteSets, TLC

(***************************************************************************)
(* Bounds of the model.                                                    *)
(***************************************************************************)
\* the mutable index never holds more than MaxTree entries (rbush keeps up
\* to 9 entries in one leaf, in insertion order; the model stays below that)
MaxTree == 2
\* the largest cacheSize option an engine is constructed with
MaxCacheSize == 2
\* the number of query descriptions a builder chain experiment keeps alive
MaxQueries == 3
MaxRecords == 3
\* the number of cacheable executions a cache experiment records
MaxAccesses == 5

(***************************************************************************)
(* JavaScript values                                                       *)
(***************************************************************************)
Num(n) == [t |-> "number", v |-> n]
Str(s) == [t |-> "string", v |-> s]
Arr(a) == [t |-> "array", v |-> a]
Undef == [t |-> "undefined"]
Null == [t |-> "null"]

None == << >>
Some(x) == << x >>

typeof(x) == IF x.t \in {"array", "null"} THEN "object" ELSE x.t
isArray(x) == x.t = "array"

\* a === b: primitives by value; an array is an object, and the arrays
\* compared here (a record's, a filter's, another record's) are different
\* objects
StrictEquals(a, b) == IF isArray(a) \/ isArray(b) THEN FALSE ELSE a = b

\* ToNumber(x), None for NaN: null and the empty string are 0, any other
\* string here (letters) and undefined are NaN; an array goes through its
\* string, "" for [], the element's for [x], one with a comma otherwise
RECURSIVE ToNumber(_)
ToNumber(x) ==
  CASE x.t = "number" -> Some(x.v)
    [] x.t = "null" -> Some(0)
    [] x.t = "string" -> IF x.v = << >> THEN Some(0) ELSE None
    [] x.t = "array" ->
         IF Len(x.v) = 0 THEN Some(0)
         ELSE IF Len(x.v) > 1 THEN None
         ELSE IF x.v[1].t = "undefined" THEN Some(0)
         ELSE ToNumber(x.v[1])
    [] OTHER -> None

Min(a, b) == IF a <= b THEN a ELSE b
Abs(a) == IF a < 0 THEN -a ELSE a

\* floor(a * b / c) for a, b >= 0 and c > 0, without leaving 32 bits
MulDiv(a, b, c) == (a \div c) * b + ((a % c) * b) \div c

\* s1 < s2 in the lexicographic order of JavaScript strings
RECURSIVE StrLess(_, _)
StrLess(s1, s2) ==
  IF s2 = << >> THEN FALSE
  ELSE IF s1 = << >> THEN TRUE
  ELSE IF Head(s1) # Head(s2) THEN Head(s1) < Head(s2)
  ELSE StrLess(Tail(s1), Tail(s2))

\* a < b, the abstract relational comparison, on numbers and on strings;
\* a comparison with undefined is false
JsLess(a, b) ==
  IF a.t = "number" /\ b.t = "number" THEN a.v < b.v
  ELSE IF a.t = "string" /\ b.t = "string" THEN StrLess(a.v, b.v)
  ELSE FALSE

(***************************************************************************)
(* Records.  A record is an object with an identity; its attributes are    *)
(* read by name.  g1 and g3 have the same rating, g2 lies 8.99 degrees     *)
(* north of the equator centre, g4 lies 5 degrees from the north pole.     *)
(***************************************************************************)
Items == {"g1", "g2", "g3", "g4"}

lat(item) ==
  CASE item = "g1" -> 0
    [] item = "g2" -> 899
    [] item = "g3" -> 0
    [] item = "g4" -> 8500

lng(item) ==
  CASE item = "g1" -> 0
    [] item = "g2" -> 0
    [] item = "g3" -> 500
    [] item = "g4" -> 0

rating(item) ==
  CASE item = "g1" -> 45
    [] item = "g2" -> 42
    [] item = "g3" -> 45
    [] item = "g4" -> 40

price(item) ==
  CASE item = "g1" -> 50
    [] item = "g2" -> 60
    [] item = "g3" -> 30
    [] item = "g4" -> 60

\* character codes: a = 1, b = 2, c = 3
name(item) ==
  CASE item = "g1" -> << 1, 2 >>
    [] item = "g2" -> << 1 >>
    [] item = "g3" -> << 2, 1 >>
    [] item = "g4" -> << 3 >>

tags(item) ==
  CASE item = "g1" -> << Str(<< 1 >>), Str(<< 2 >>) >>
    [] item = "g2" -> << Str(<< 1 >>) >>
    [] item = "g3" -> << Str(<< 2 >>), Str(<< 3 >>) >>
    [] item = "g4" -> << >>

\* an optional attribute: g2 and g4 do not have it
reviews(item) ==
  CASE item = "g1" -> Num(5)
    [] item = "g3" -> Num(3)
    [] OTHER -> Undef

\* item[field]
Field(item, field) ==
  CASE field = "lat" -> Num(lat(item))
    [] field = "lng" -> Num(lng(item))
    [] field = "rating" -> Num(rating(item))
    [] field = "price" -> Num(price(item))
    [] field = "name" -> Str(name(item))
    [] field = "tags" -> Arr(tags(item))
    [] field = "reviews" -> reviews(item)
    [] OTHER -> Undef

(***************************************************************************)
(* Geometry utilities                                                      *)
(***************************************************************************)
EARTH_RADIUS_KM == 6371

\* centres used by radius queries
Equator == [lat |-> 0, lng |-> 0]
Pole == [lat |-> 9000, lng |-> 0]

Point(item) == [lat |-> lat(item), lng |-> lng(item)]

\* The angle between two points, in centidegrees, where the haversine
\* formula reduces to it exactly: two points on one meridian (deltaLng = 0),
\* two points on the equator (deltaLat = 0, both cosines 1), or a point and
\* a pole (cos(lat1) = 0): then a = sin^2(angle / 2) and c = angle.  Every
\* centre and record of the model is in one of these positions.
CentralAngle(point1, point2) ==
  IF point1.lng = point2.lng THEN Abs(point2.lat - point1.lat)
  ELSE IF point1.lat = 0 /\ point2.lat = 0 THEN Abs(point2.lng - point1.lng)
  ELSE Abs(point2.lat - point1.lat)

\* EARTH_RADIUS_KM * c, in metres: c = angle * pi / 18000 radians, with
\* pi = 355 / 113 (exact to the metre on the angles of the model)
haversineDistance(point1, point2) ==
  MulDiv(EARTH_RADIUS_KM * CentralAngle(point1, point2), 355, 113 * 18)

\* km / 111.32 degrees, in whole centidegrees (rounded down: coordinates are
\* whole centidegrees, so a bound and its floor admit the same points)
kmToLatDegrees(km) == (km * 10000) \div 11132

\* Math.cos(latitude * PI / 180) as a fraction, at the latitudes a centre
\* may have: cos 0 = 1, cos 60 = 1/2, cos 90 = 6e-17 (0 here)
cosNum(latitude) == IF Abs(latitude) = 9000 THEN 0 ELSE 1
cosDen(latitude) == IF Abs(latitude) = 6000 THEN 2 ELSE 1

kmToLngDegrees(km, latitude) ==
  \* kmPerDegree = 111.32 * cos(latRad); kmPerDegree < 0.001
  IF 111320 * cosNum(latitude) < cosDen(latitude)
  THEN 36000
  ELSE (km * 10000 * cosDen(latitude)) \div (11132 * cosNum(latitude))

radiusToBoundingBox(center, radiusKm) ==
  LET latDelta == kmToLatDegrees(radiusKm)
      lngDelta == kmToLngDegrees(radiusKm, center.lat)
  IN [minLat |-> center.lat - latDelta,
      maxLat |-> center.lat + latDelta,
      minLng |-> center.lng - lngDelta,
      maxLng |-> center.lng + lngDelta]

(***************************************************************************)
(* Filter evaluator                                                        *)
(***************************************************************************)
\* Array.prototype.includes on an array of primitives
includes(a, x) == \E i \in 1..Len(a) : StrictEquals(a[i], x)

IsPrefix(p, s) == Len(p) <= Len(s) /\ SubSeq(s, 1, Len(p)) = p
IsSuffix(p, s) == Len(p) <= Len(s) /\ SubSeq(s, Len(s) - Len(p) + 1, Len(s)) = p
IsInfix(p, s) ==
  \E i \in 0..Len(s) : i + Len(p) <= Len(s) /\ SubSeq(s, i + 1, i + Len(p)) = p

BothNumbers(fieldValue, filterValue) ==
  typeof(fieldValue) = "number" /\ typeof(filterValue) = "number"
BothStrings(fieldValue, filterValue) ==
  typeof(fieldValue) = "string" /\ typeof(filterValue) = "string"

\* greaterThan that lets the equal value through
greaterThan_inclusive(fieldValue, filterValue) ==
  IF BothNumbers(fieldValue, filterValue) THEN fieldValue.v >= filterValue.v
  ELSE IF BothStrings(fieldValue, filterValue) THEN ~StrLess(fieldValue.v, filterValue.v)
  ELSE FALSE

greaterThan(fieldValue, filterValue) ==
  IF BothNumbers(fieldValue, filterValue) THEN fieldValue.v > filterValue.v
  ELSE IF BothStrings(fieldValue, filterValue) THEN StrLess(filterValue.v, fieldValue.v)
  ELSE FALSE

greaterThanOrEqual(fieldValue, filterValue) ==
  IF BothNumbers(fieldValue, filterValue) THEN fieldValue.v >= filterValue.v
  ELSE IF BothStrings(fieldValue, filterValue) THEN ~StrLess(fieldValue.v, filterValue.v)
  ELSE FALSE

lessThan(fieldValue, filterValue) ==
  IF BothNumbers(fieldValue, filterValue) THEN fieldValue.v < filterValue.v
  ELSE IF BothStrings(fieldValue, filterValue) THEN StrLess(fieldValue.v, filterValue.v)
  ELSE FALSE

lessThanOrEqual(fieldValue, filterValue) ==
  IF BothNumbers(fieldValue, filterValue) THEN fieldValue.v <= filterValue.v
  ELSE IF BothStrings(fieldValue, filterValue) THEN ~StrLess(filterValue.v, fieldValue.v)
  ELSE FALSE

\* the bounds are compared as they are: >= and <= convert a bound that is
\* not a number with ToNumber, and are false for NaN
between(fieldValue, filterValue) ==
  IF typeof(fieldValue) = "number" /\ isArray(filterValue) /\ Len(filterValue.v) = 2
  THEN LET min == ToNumber(filterValue.v[1])
           max == ToNumber(filterValue.v[2])
       IN \* fieldValue >= min && fieldValue <= max
          /\ min # None /\ fieldValue.v >= min[1]
          /\ max # None /\ fieldValue.v <= max[1]
  ELSE FALSE

filterOperators(operator, fieldValue, filterValue) ==
  CASE operator = "equals" -> StrictEquals(fieldValue, filterValue)
    [] operator = "notEquals" -> ~StrictEquals(fieldValue, filterValue)
    [] operator = "greaterThan" -> greaterThan(fieldValue, filterValue)
    [] operator = "greaterThanOrEqual" -> greaterThanOrEqual(fieldValue, filterValue)
    [] operator = "lessThan" -> lessThan(fieldValue, filterValue)
    [] operator = "lessThanOrEqual" -> lessThanOrEqual(fieldValue, filterValue)
    [] operator = "includes" ->
         IF isArray(fieldValue) THEN includes(fieldValue.v, filterValue) ELSE FALSE
    [] operator = "includesAll" ->
         IF isArray(fieldValue) /\ isArray(filterValue)
         THEN \A i \in 1..Len(filterValue.v) : includes(fieldValue.v, filterValue.v[i])
         ELSE FALSE
    [] operator = "includesAny" ->
         IF isArray(fieldValue) /\ isArray(filterValue)
         THEN \E i \in 1..Len(filterValue.v) : includes(fieldValue.v, filterValue.v[i])
         ELSE FALSE
    [] operator = "startsWith" ->
         IF BothStrings(fieldValue, filterValue)
         THEN IsPrefix(filterValue.v, fieldValue.v) ELSE FALSE
    [] operator = "endsWith" ->
         IF BothStrings(fieldValue, filterValue)
         THEN IsSuffix(filterValue.v, fieldValue.v) ELSE FALSE
    [] operator = "contains" ->
         IF BothStrings(fieldValue, filterValue)
         THEN IsInfix(filterValue.v, fieldValue.v) ELSE FALSE
    [] operator = "between" -> between(fieldValue, filterValue)
    [] operator = "in" ->
         IF isArray(filterValue) THEN includes(filterValue.v, fieldValue) ELSE FALSE
    [] operator = "notIn" ->
         IF isArray(filterValue) THEN ~includes(filterValue.v, fieldValue) ELSE FALSE

evaluateFilter(item, field, operator, value) ==
  LET fieldValue == Field(item, field)
  IN filterOperators(operator, fieldValue, value)

(***************************************************************************)
(* Mutable index (SpatialIndex on rbush).  tree is the sequence of indexed *)
(* entries in the order rbush keeps them in a leaf (insertion order);      *)
(* itemToIndexed maps a record to the position in tree of the entry the    *)
(* WeakMap holds for it, 0 when the WeakMap has no entry for it.           *)
(***************************************************************************)
createIndexedItem(item) ==
  [minX |-> lng(item), minY |-> lat(item),
   maxX |-> lng(item), maxY |-> lat(item), item |-> item]

NewSpatialIndex ==
  [kind |-> "dynamic", tree |-> << >>, itemToIndexed |-> [i \in Items |-> 0]]

\* an index operation that returned: the index after it and what it returned
Returned(index, result) == [threw |-> FALSE, index |-> index, result |-> result]
\* an index operation that threw: the index is as it was
Threw(index) == [threw |-> TRUE, index |-> index, result |-> FALSE]

SpatialIndex_add(this, item) ==
  LET indexed == createIndexedItem(item)
  IN Returned([this EXCEPT !.tree = Append(@, indexed),
                           !.itemToIndexed[item] = Len(this.tree) + 1], FALSE)

RECURSIVE SpatialIndex_addMany(_, _)
SpatialIndex_addMany(this, items) ==
  IF items = << >> THEN Returned(this, FALSE)
  ELSE SpatialIndex_addMany(SpatialIndex_add(this, Head(items)).index, Tail(items))

\* items.map(createIndexedItem + itemToIndexed.set), then tree.load, which
\* inserts the entries into the tree it has
SpatialIndex_load(this, items) == SpatialIndex_addMany(this, items)

RemoveAt(seq, k) == SubSeq(seq, 1, k - 1) \o SubSeq(seq, k + 1, Len(seq))

\* remove() answering true for a record the WeakMap does not hold
SpatialIndex_remove_alwaysTrue(this, item) ==
  LET indexed == this.itemToIndexed[item]
  IN IF indexed = 0 THEN Returned(this, TRUE)
     ELSE Returned(
            [this EXCEPT
               !.tree = RemoveAt(@, indexed),
               !.itemToIndexed =
                 [i \in Items |->
                    IF i = item THEN 0
                    ELSE IF @[i] > indexed THEN @[i] - 1 ELSE @[i]]],
            TRUE)

SpatialIndex_remove(this, item) ==
  LET indexed == this.itemToIndexed[item]
  IN IF indexed = 0 THEN Returned(this, FALSE)
     ELSE Returned(
            [this EXCEPT
               !.tree = RemoveAt(@, indexed),
               !.itemToIndexed =
                 [i \in Items |->
                    IF i = item THEN 0
                    ELSE IF @[i] > indexed THEN @[i] - 1 ELSE @[i]]],
            TRUE)

\* clear() that leaves the tree as it is
SpatialIndex_clear_keepTree(this) == Returned(this, FALSE)

SpatialIndex_clear(this) == Returned(NewSpatialIndex, FALSE)

SpatialIndex_size(this) == Len(this.tree)

SpatialIndex_all(this) == [k \in 1..Len(this.tree) |-> this.tree[k].item]

\* rbush: the entry's rectangle intersects the searched one
intersects(a, b) ==
  b.minX <= a.maxX /\ b.minY <= a.maxY /\ b.maxX >= a.minX /\ b.maxY >= a.minY

SelectItems(entries, bbox) ==
  LET F[k \in 0..Len(entries)] ==
        IF k = 0 THEN << >>
        ELSE IF intersects(bbox, entries[k]) THEN Append(F[k - 1], entries[k].item)
        ELSE F[k - 1]
  IN F[Len(entries)]

SpatialIndex_searchBounds(this, bounds) ==
  SelectItems(this.tree,
              [minX |-> bounds.minLng, minY |-> bounds.minLat,
               maxX |-> bounds.maxLng, maxY |-> bounds.maxLat])

\* the candidates within radiusKm, each with its distance
WithinRadius(candidates, center, radiusKm) ==
  LET F[k \in 0..Len(candidates)] ==
        IF k = 0 THEN << >>
        ELSE LET distance == haversineDistance(center, Point(candidates[k]))
             IN IF distance <= radiusKm * 1000
                THEN Append(F[k - 1], [item |-> candidates[k], distance |-> distance])
                ELSE F[k - 1]
  IN F[Len(candidates)]

SpatialIndex_searchRadius(this, center, radiusKm) ==
  LET bbox == radiusToBoundingBox(center, radiusKm)
      candidates == SpatialIndex_searchBounds(this, bbox)
  IN WithinRadius(candidates, center, radiusKm)

(***************************************************************************)
(* Immutable index (StaticSpatialIndex on kdbush / geokdbush).  items is   *)
(* the loaded array; index is the sequence of coordinates added to kdbush, *)
(* which keeps them in array order below its node size of 64; finished     *)
(* tells whether finish() was called on the kdbush the index holds.        *)
(***************************************************************************)
\* the constructor: new KDBush(0), on which finish() is not called
NewStaticSpatialIndex ==
  [kind |-> "static", items |-> << >>, size |-> 0, index |-> << >>,
   finished |-> FALSE]

StaticSpatialIndex_load(this, items) ==
  Returned([kind |-> "static", items |-> items, size |-> Len(items),
            index |-> [k \in 1..Len(items) |->
                         [x |-> lng(items[k]), y |-> lat(items[k])]],
            finished |-> TRUE],
           FALSE)

StaticSpatialIndex_add(this, item) == Threw(this)
StaticSpatialIndex_addMany(this, items) == Threw(this)
\* remove() reporting "not found" instead of throwing
StaticSpatialIndex_remove_quiet(this, item) == Returned(this, FALSE)

StaticSpatialIndex_remove(this, item) == Threw(this)
StaticSpatialIndex_clear(this) == Threw(this)

StaticSpatialIndex_size(this) == this.size
StaticSpatialIndex_all(this) == this.items

\* kdbush range throws "Data not yet indexed" on an index that finish() was
\* not called on (geokdbush.around reads the arrays without that test)
StaticSpatialIndex_searchBoundsThrows(this) == ~this.finished

\* kdbush range: the indices of the points inside the rectangle, borders
\* included, mapped back to the items
StaticSpatialIndex_searchBounds(this, bounds) ==
  LET F[k \in 0..Len(this.index)] ==
        IF k = 0 THEN << >>
        ELSE IF /\ this.index[k].x >= bounds.minLng /\ this.index[k].x <= bounds.maxLng
                /\ this.index[k].y >= bounds.minLat /\ this.index[k].y <= bounds.maxLat
             THEN Append(F[k - 1], this.items[k])
             ELSE F[k - 1]
  IN F[Len(this.index)]

\* insert into a sequence ordered by distance, after the entries not farther
RECURSIVE InsertByDistance(_, _)
InsertByDistance(sorted, c) ==
  IF sorted = << >> THEN << c >>
  ELSE IF c.distance < Head(sorted).distance THEN << c >> \o sorted
  ELSE << Head(sorted) >> \o InsertByDistance(Tail(sorted), c)

\* geokdbush.around with no maxResults: every point whose great-circle
\* distance is at most maxDistance, nearest first; then the distance of each
StaticSpatialIndex_searchRadius(this, center, radiusKm) ==
  LET within == WithinRadius(this.items, center, radiusKm)
      F[k \in 0..Len(within)] ==
        IF k = 0 THEN << >> ELSE InsertByDistance(F[k - 1], within[k])
  IN F[Len(within)]

(***************************************************************************)
(* ISpatialIndex: the variant chosen at construction                       *)
(***************************************************************************)
Index_load(this, items) ==
  IF this.kind = "static" THEN StaticSpatialIndex_load(this, items)
  ELSE SpatialIndex_load(this, items)
Index_add(this, item) ==
  IF this.kind = "static" THEN StaticSpatialIndex_add(this, item)
  ELSE SpatialIndex_add(this, item)
Index_addMany(this, items) ==
  IF this.kind = "static" THEN StaticSpatialIndex_addMany(this, items)
  ELSE SpatialIndex_addMany(this, items)
Index_remove(this, item) ==
  IF this.kind = "static" THEN StaticSpatialIndex_remove(this, item)
  ELSE SpatialIndex_remove(this, item)
Index_clear(this) ==
  IF this.kind = "static" THEN StaticSpatialIndex_clear(this)
  ELSE SpatialIndex_clear(this)
Index_size(this) ==
  IF this.kind = "static" THEN StaticSpatialIndex_size(this)
  ELSE SpatialIndex_size(this)
Index_all(this) ==
  IF this.kind = "static" THEN StaticSpatialIndex_all(this)
  ELSE SpatialIndex_all(this)
Index_searchBounds(this, bounds) ==
  IF this.kind = "static" THEN StaticSpatialIndex_searchBounds(this, bounds)
  ELSE SpatialIndex_searchBounds(this, bounds)
Index_searchRadius(this, center, radiusKm) ==
  IF this.kind = "static" THEN StaticSpatialIndex_searchRadius(this, center, radiusKm)
  ELSE SpatialIndex_searchRadius(this, center, radiusKm)

(***************************************************************************)
(* Result cache.  entries are ordered from the least to the most recently  *)
(* used.                                                                   *)
(***************************************************************************)
NewLRUCache(maxSize) == [maxSize |-> maxSize, entries |-> << >>]

\* the position of key in the entries, 0 when absent
KeyIndex(entries, key) ==
  IF \E k \in 1..Len(entries) : entries[k].key = key
  THEN CHOOSE k \in 1..Len(entries) : entries[k].key = key
  ELSE 0

\* get(key): the value, as Some(value), and the cache with the key marked
\* most recently used; None ("undefined") when absent
LRUCache_get(this, key) ==
  LET k == KeyIndex(this.entries, key)
  IN IF k = 0 THEN [value |-> None, cache |-> this]
     ELSE [value |-> Some(this.entries[k].value),
           cache |-> [this EXCEPT !.entries = Append(RemoveAt(@, k), this.entries[k])]]

\* set(key, value): insert or overwrite as most recently used; over the
\* capacity, evict the least recently used
LRUCache_set(this, key, value) ==
  LET k == KeyIndex(this.entries, key)
      kept == IF k = 0 THEN this.entries ELSE RemoveAt(this.entries, k)
      added == Append(kept, [key |-> key, value |-> value])
  IN [this EXCEPT !.entries = IF Len(added) > this.maxSize THEN Tail(added) ELSE added]

LRUCache_clear(this) == [this EXCEPT !.entries = << >>]

LRUCache_size(this) == Len(this.entries)

\* the canonical signature of the cacheable state: it determines every
\* field it is given, in the order given
generateCacheKey(cacheableState) == cacheableState

(***************************************************************************)
(* Query builder.  A query description is the QueryState of a builder; the *)
(* builder's index and cache are references to the engine's.               *)
(***************************************************************************)
\* new QueryBuilder(spatialIndex, undefined, cache)
EmptyState ==
  [radiusFilter |-> None, boundsFilter |-> None, attributeFilters |-> << >>,
   sortCriteria |-> << >>, scoreFunction |-> None, limitCount |-> None,
   offsetCount |-> 0]

\* { ...this.state, ...updates }
clone(this, updates) ==
  LET merged(f) == IF f \in DOMAIN updates THEN updates[f] ELSE this[f]
  IN [radiusFilter |-> merged("radiusFilter"),
      boundsFilter |-> merged("boundsFilter"),
      attributeFilters |-> merged("attributeFilters"),
      sortCriteria |-> merged("sortCriteria"),
      scoreFunction |-> merged("scoreFunction"),
      limitCount |-> merged("limitCount"),
      offsetCount |-> merged("offsetCount")]

\* a key that keeps the attribute filters without their order
getCacheKey_unordered(this) ==
  generateCacheKey(
    [radiusFilter |-> this.radiusFilter, boundsFilter |-> this.boundsFilter,
     attributeFilters |->
       {this.attributeFilters[k] : k \in 1..Len(this.attributeFilters)},
     sortCriteria |-> this.sortCriteria,
     limitCount |-> this.limitCount, offsetCount |-> this.offsetCount])

getCacheKey(this) ==
  generateCacheKey(
    [radiusFilter |-> this.radiusFilter, boundsFilter |-> this.boundsFilter,
     attributeFilters |-> this.attributeFilters, sortCriteria |-> this.sortCriteria,
     limitCount |-> this.limitCount, offsetCount |-> this.offsetCount])

QueryBuilder_near(this, center, radiusKm) ==
  clone(this, [radiusFilter |-> Some([center |-> center, radiusKm |-> radiusKm])])

QueryBuilder_withinBounds(this, bounds) ==
  clone(this, [boundsFilter |-> Some(bounds)])

QueryBuilder_where(this, field, operator, value) ==
  LET newFilter == [field |-> field, operator |-> operator, value |-> value]
  IN clone(this, [attributeFilters |-> Append(this.attributeFilters, newFilter)])

QueryBuilder_sortBy(this, criteria) == clone(this, [sortCriteria |-> criteria])

QueryBuilder_score(this, fn) == clone(this, [scoreFunction |-> Some(fn)])

QueryBuilder_limit(this, count) == clone(this, [limitCount |-> Some(count)])

QueryBuilder_offset(this, count) == clone(this, [offsetCount |-> count])

(***************************************************************************)
(* Query execution                                                         *)
(***************************************************************************)
Infinity == 2147483647

\* the scoring functions a caller passes to score()
ScoreFunctions == {"ratingTimesTen", "minusDistance"}

Apply(fn, item, distance) ==
  IF fn = "ratingTimesTen" THEN rating(item) * 10
  ELSE IF distance = None THEN 0 ELSE 0 - distance[1]

Candidate(item, distance) == [item |-> item, distance |-> distance, score |-> None]

\* step 1: the spatial filter
Candidates(this, spatialIndex) ==
  IF this.radiusFilter # None
  THEN LET found == Index_searchRadius(spatialIndex, this.radiusFilter[1].center,
                                       this.radiusFilter[1].radiusKm)
       IN [k \in 1..Len(found) |-> Candidate(found[k].item, Some(found[k].distance))]
  ELSE IF this.boundsFilter # None
  THEN LET items == Index_searchBounds(spatialIndex, this.boundsFilter[1])
       IN [k \in 1..Len(items) |-> Candidate(items[k], None)]
  ELSE LET items == Index_all(spatialIndex)
       IN [k \in 1..Len(items) |-> Candidate(items[k], None)]

\* Array.prototype.filter with one filter condition
FilterBy(candidates, filter) ==
  LET F[k \in 0..Len(candidates)] ==
        IF k = 0 THEN << >>
        ELSE IF evaluateFilter(candidates[k].item, filter.field, filter.operator,
                               filter.value)
             THEN Append(F[k - 1], candidates[k])
             ELSE F[k - 1]
  IN F[Len(candidates)]

\* the filter loop stopping after the first condition
ApplyFilters_firstOnly(candidates, attributeFilters) ==
  IF attributeFilters = << >> THEN candidates
  ELSE FilterBy(candidates, Head(attributeFilters))

\* step 2: the attribute filters, one after the other
RECURSIVE ApplyFilters(_, _)
ApplyFilters(candidates, attributeFilters) ==
  IF attributeFilters = << >> THEN candidates
  ELSE ApplyFilters(FilterBy(candidates, Head(attributeFilters)), Tail(attributeFilters))

\* step 3: the score of every surviving candidate
Scored(this, filtered) ==
  IF this.scoreFunction # None
  THEN [k \in 1..Len(filtered) |->
          [filtered[k] EXCEPT
             !.score = Some(Apply(this.scoreFunction[1], filtered[k].item,
                                  filtered[k].distance))]]
  ELSE filtered

\* every criterion reading the named attribute of the record
SortValue_attributesOnly(c, other, field) == Field(c.item, field)

\* the value a criterion reads from a candidate
SortValue(c, other, field) ==
  IF field = "distance"
  THEN Num(IF c.distance = None THEN Infinity ELSE c.distance[1])
  ELSE IF field = "score" /\ c.score # None /\ other.score # None
  THEN Num(c.score[1])
  ELSE Field(c.item, field)

\* the comparator given to Array.prototype.sort
RECURSIVE Compare(_, _, _)
Compare(a, b, sortCriteria) ==
  IF sortCriteria = << >> THEN 0
  ELSE LET criterion == Head(sortCriteria)
           aVal == SortValue(a, b, criterion.field)
           bVal == SortValue(b, a, criterion.field)
       IN IF StrictEquals(aVal, bVal) THEN Compare(a, b, Tail(sortCriteria))
          ELSE LET comparison == IF JsLess(aVal, bVal) THEN -1 ELSE 1
               IN IF criterion.order = "asc" THEN comparison ELSE 0 - comparison

\* Array.prototype.sort with a consistent comparator: the sort is stable, an
\* element goes after the last element that does not compare greater than it
RECURSIVE InsertSorted(_, _, _)
InsertSorted(sorted, c, sortCriteria) ==
  IF sorted = << >> THEN << c >>
  ELSE LET last == sorted[Len(sorted)]
       IN IF Compare(last, c, sortCriteria) > 0
          THEN Append(InsertSorted(SubSeq(sorted, 1, Len(sorted) - 1), c, sortCriteria),
                      last)
          ELSE Append(sorted, c)

\* step 4
Sort(filtered, sortCriteria) ==
  IF Len(sortCriteria) > 0
  THEN LET F[k \in 0..Len(filtered)] ==
             IF k = 0 THEN << >> ELSE InsertSorted(F[k - 1], filtered[k], sortCriteria)
       IN F[Len(filtered)]
  ELSE filtered

\* the comparator is a consistent comparator for the elements of the array
\* (ECMAScript, Array.prototype.sort): a < b exactly when b > a, and the
\* three relations are transitive
ConsistentComparator(filtered, sortCriteria) ==
  LET c(i, j) == Compare(filtered[i], filtered[j], sortCriteria)
      n == Len(filtered)
  IN /\ \A i \in 1..n, j \in 1..n :
          /\ (c(i, j) < 0) = (c(j, i) > 0)
          /\ (c(i, j) = 0) = (c(j, i) = 0)
     /\ \A i \in 1..n, j \in 1..n, k \in 1..n :
          /\ (c(i, j) = 0 /\ c(j, k) = 0) => c(i, k) = 0
          /\ (c(i, j) < 0 /\ c(j, k) < 0) => c(i, k) < 0
          /\ (c(i, j) < 0 /\ c(j, k) = 0) => c(i, k) < 0
          /\ (c(i, j) = 0 /\ c(j, k) < 0) => c(i, k) < 0

\* what step 4 can leave in the array: with a comparator that is not
\* consistent the order is implementation-defined, any rearrangement
SortOutcomes(filtered, sortCriteria) ==
  IF ConsistentComparator(filtered, sortCriteria)
  THEN {Sort(filtered, sortCriteria)}
  ELSE {[k \in 1..Len(filtered) |-> filtered[p[k]]] :
          p \in Permutations(1..Len(filtered))}

\* Array.prototype.slice(start) and slice(0, end), for counts >= 0
SliceFrom(seq, start) == SubSeq(seq, start + 1, Len(seq))
SliceTo(seq, end) == SubSeq(seq, 1, Min(end, Len(seq)))

\* limit, then offset
Paginate_limitFirst(this, sorted) ==
  LET afterLimit == IF this.limitCount # None THEN SliceTo(sorted, this.limitCount[1])
                    ELSE sorted
  IN IF this.offsetCount > 0 THEN SliceFrom(afterLimit, this.offsetCount)
     ELSE afterLimit

\* step 5: offset, then limit
Paginate(this, sorted) ==
  LET afterOffset == IF this.offsetCount > 0 THEN SliceFrom(sorted, this.offsetCount)
                     ELSE sorted
  IN IF this.limitCount # None THEN SliceTo(afterOffset, this.limitCount[1])
     ELSE afterOffset

\* a step 6 that returns the item itself for every query
Format_itemOnly(this, results) ==
  [k \in 1..Len(results) |-> [item |-> results[k].item, distance |-> None]]

\* step 6: { ...item, distance } for a radius query, the item itself otherwise
Format(this, results) ==
  [k \in 1..Len(results) |->
     IF this.radiusFilter # None /\ results[k].distance # None
     THEN [item |-> results[k].item, distance |-> results[k].distance]
     ELSE [item |-> results[k].item, distance |-> None]]

\* step 1 ends the execution with the exception of searchBounds
executeThrows(this, spatialIndex) ==
  /\ this.radiusFilter = None
  /\ this.boundsFilter # None
  /\ spatialIndex.kind = "static"
  /\ StaticSpatialIndex_searchBoundsThrows(spatialIndex)

\* steps 1 to 3: the candidates as they are before the sort
Unsorted(this, spatialIndex) ==
  Scored(this, ApplyFilters(Candidates(this, spatialIndex), this.attributeFilters))

\* every query the facade and the builder specifications execute sorts with
\* a consistent comparator
executeInternal(this, spatialIndex) ==
  Format(this, Paginate(this, Sort(Unsorted(this, spatialIndex), this.sortCriteria)))

\* the arrays executeInternal can return, for any comparator
executeInternalOutcomes(this, spatialIndex) ==
  {Format(this, Paginate(this, sorted)) :
     sorted \in SortOutcomes(Unsorted(this, spatialIndex), this.sortCriteria)}

\* an execution that ended with an exception: nothing is returned, and the
\* cache is as the probe left it (a miss changes nothing)
Failed(cache) ==
  [items |-> << >>, cached |-> FALSE, cache |-> cache, threw |-> TRUE,
   metadata |-> [totalMatches |-> 0, returnedCount |-> 0, cached |-> FALSE]]

\* execute() without the cache.set of a miss
QueryBuilder_execute_noSet(this, spatialIndex, cache) ==
  LET canCache == cache # None /\ this.scoreFunction = None
      got == IF canCache THEN LRUCache_get(cache[1], getCacheKey(this))
             ELSE [value |-> None, cache |-> << >>]
  IN IF canCache /\ got.value # None
     THEN [items |-> got.value[1], cached |-> TRUE, cache |-> Some(got.cache),
           threw |-> FALSE]
     ELSE IF executeThrows(this, spatialIndex) THEN Failed(cache)
     ELSE [items |-> executeInternal(this, spatialIndex), cached |-> FALSE,
           cache |-> cache, threw |-> FALSE]

\* a miss that stores the result whether or not a scoring function is set
Miss_ignoreScore(this, cache, results) ==
  [items |-> results, cached |-> FALSE, threw |-> FALSE,
   cache |-> IF cache # None
             THEN Some(LRUCache_set(cache[1], getCacheKey(this), results))
             ELSE cache]

\* the miss path of execute(): the results are stored when the query can be
\* cached
Miss(this, cache, results) ==
  [items |-> results, cached |-> FALSE, threw |-> FALSE,
   cache |-> IF cache # None /\ this.scoreFunction = None
             THEN Some(LRUCache_set(cache[1], getCacheKey(this), results))
             ELSE cache]

\* execute() with a hit that does not count as a use of the entry
QueryBuilder_execute_noTouch(this, spatialIndex, cache) ==
  LET canCache == cache # None /\ this.scoreFunction = None
      got == IF canCache THEN LRUCache_get(cache[1], getCacheKey(this))
             ELSE [value |-> None, cache |-> << >>]
  IN IF canCache /\ got.value # None
     THEN [items |-> got.value[1], cached |-> TRUE, cache |-> cache,
           threw |-> FALSE]
     ELSE IF executeThrows(this, spatialIndex) THEN Failed(cache)
     ELSE Miss(this, cache, executeInternal(this, spatialIndex))

\* execute(): the items, whether they came from the cache, and the cache
\* afterwards (cache is None for an engine without a cache)
QueryBuilder_execute(this, spatialIndex, cache) ==
  LET canCache == cache # None /\ this.scoreFunction = None
      got == IF canCache THEN LRUCache_get(cache[1], getCacheKey(this))
             ELSE [value |-> None, cache |-> << >>]
  IN IF canCache /\ got.value # None
     THEN [items |-> got.value[1], cached |-> TRUE, cache |-> Some(got.cache),
           threw |-> FALSE]
     ELSE IF executeThrows(this, spatialIndex) THEN Failed(cache)
     ELSE Miss(this, cache, executeInternal(this, spatialIndex))

\* a miss path that counts the matches after the pagination
MissWithMetadata_countReturned(this, cache, totalMatches, items) ==
  [items |-> items, threw |-> FALSE,
   metadata |-> [totalMatches |-> Len(items), returnedCount |-> Len(items),
                 cached |-> FALSE],
   cache |-> IF cache # None /\ this.scoreFunction = None
             THEN Some(LRUCache_set(cache[1], getCacheKey(this), items))
             ELSE cache]

\* the miss path of executeWithMetadata()
MissWithMetadata(this, cache, totalMatches, items) ==
  [items |-> items, threw |-> FALSE,
   metadata |-> [totalMatches |-> totalMatches, returnedCount |-> Len(items),
                 cached |-> FALSE],
   cache |-> IF cache # None /\ this.scoreFunction = None
             THEN Some(LRUCache_set(cache[1], getCacheKey(this), items))
             ELSE cache]

\* executeWithMetadata() whose hit counts the matches again from the index
QueryBuilder_executeWithMetadata_recount(this, spatialIndex, cache) ==
  LET canCache == cache # None /\ this.scoreFunction = None
      got == IF canCache THEN LRUCache_get(cache[1], getCacheKey(this))
             ELSE [value |-> None, cache |-> << >>]
      matches == Len(ApplyFilters(Candidates(this, spatialIndex), this.attributeFilters))
  IN IF canCache /\ got.value # None
     THEN [items |-> got.value[1],
           metadata |-> [totalMatches |-> matches,
                         returnedCount |-> Len(got.value[1]), cached |-> TRUE],
           cache |-> Some(got.cache), threw |-> FALSE]
     ELSE IF executeThrows(this, spatialIndex) THEN Failed(cache)
     ELSE MissWithMetadata(this, cache, matches, executeInternal(this, spatialIndex))

\* executeWithMetadata(): the items, the metadata (without the elapsed
\* time) and the cache afterwards
QueryBuilder_executeWithMetadata(this, spatialIndex, cache) ==
  LET canCache == cache # None /\ this.scoreFunction = None
      got == IF canCache THEN LRUCache_get(cache[1], getCacheKey(this))
             ELSE [value |-> None, cache |-> << >>]
  IN IF canCache /\ got.value # None
     THEN [items |-> got.value[1],
           metadata |-> [totalMatches |-> Len(got.value[1]),
                         returnedCount |-> Len(got.value[1]), cached |-> TRUE],
           cache |-> Some(got.cache), threw |-> FALSE]
     ELSE IF executeThrows(this, spatialIndex) THEN Failed(cache)
     ELSE MissWithMetadata(
            this, cache,
            Len(ApplyFilters(Candidates(this, spatialIndex), this.attributeFilters)),
            executeInternal(this, spatialIndex))

(***************************************************************************)
(* Engine facade.  A GeoSearch is the record of its fields: spatialIndex,  *)
(* cache (None when caching is off) and isStatic.                          *)
(***************************************************************************)
\* options.cacheSize ?? 100
DefaultCacheSize == 100
cacheSizeOption(cacheSize) ==
  IF cacheSize = None THEN DefaultCacheSize ELSE cacheSize[1]

\* a constructor that gives the cache room for one entry more
NewGeoSearch_oversized(items, static, useCache, cacheSize) ==
  LET index == IF static THEN NewStaticSpatialIndex ELSE NewSpatialIndex
  IN [isStatic |-> static,
      spatialIndex |-> IF Len(items) > 0 THEN Index_load(index, items).index ELSE index,
      cache |-> IF useCache THEN Some(NewLRUCache(cacheSize + 1)) ELSE None]

\* new GeoSearch(items, { static, cache, cacheSize })
NewGeoSearch(items, static, useCache, cacheSize) ==
  LET index == IF static THEN NewStaticSpatialIndex ELSE NewSpatialIndex
  IN [isStatic |-> static,
      spatialIndex |-> IF Len(items) > 0 THEN Index_load(index, items).index ELSE index,
      cache |-> IF useCache THEN Some(NewLRUCache(cacheSize)) ELSE None]

\* an invalidation that leaves the entries in place
invalidateCache_skip(this) == this

invalidateCache(this) ==
  IF this.cache # None THEN [this EXCEPT !.cache = Some(LRUCache_clear(@[1]))]
  ELSE this

\* what a facade call did: whether it threw, the engine afterwards, and the
\* value returned (remove's boolean)
Outcome(threw, this, result) == [threw |-> threw, this |-> this, result |-> result]

\* add() without the invalidation
GeoSearch_add_noInvalidate(this, item) ==
  LET r == Index_add(this.spatialIndex, item)
  IN IF r.threw THEN Outcome(TRUE, this, FALSE)
     ELSE Outcome(FALSE, [this EXCEPT !.spatialIndex = r.index], FALSE)

GeoSearch_add(this, item) ==
  LET r == Index_add(this.spatialIndex, item)
  IN IF r.threw THEN Outcome(TRUE, this, FALSE)
     ELSE Outcome(FALSE, invalidateCache([this EXCEPT !.spatialIndex = r.index]), FALSE)

GeoSearch_addMany(this, items) ==
  LET r == Index_addMany(this.spatialIndex, items)
  IN IF r.threw THEN Outcome(TRUE, this, FALSE)
     ELSE Outcome(FALSE, invalidateCache([this EXCEPT !.spatialIndex = r.index]), FALSE)

\* remove() that invalidates the cache whatever the index answered
GeoSearch_remove_alwaysInvalidate(this, item) ==
  LET r == Index_remove(this.spatialIndex, item)
  IN IF r.threw THEN Outcome(TRUE, this, FALSE)
     ELSE Outcome(FALSE, invalidateCache([this EXCEPT !.spatialIndex = r.index]),
                  r.result)

\* remove() without the invalidation
GeoSearch_remove_noInvalidate(this, item) ==
  LET r == Index_remove(this.spatialIndex, item)
  IN IF r.threw THEN Outcome(TRUE, this, FALSE)
     ELSE Outcome(FALSE, [this EXCEPT !.spatialIndex = r.index], r.result)

GeoSearch_remove(this, item) ==
  LET r == Index_remove(this.spatialIndex, item)
  IN IF r.threw THEN Outcome(TRUE, this, FALSE)
     ELSE IF r.result
     THEN Outcome(FALSE, invalidateCache([this EXCEPT !.spatialIndex = r.index]), TRUE)
     ELSE Outcome(FALSE, [this EXCEPT !.spatialIndex = r.index], FALSE)

\* clear() that invalidates the cache before it calls the index
GeoSearch_clear_invalidateFirst(this) ==
  LET r == Index_clear(this.spatialIndex)
  IN IF r.threw THEN Outcome(TRUE, invalidateCache(this), FALSE)
     ELSE Outcome(FALSE, invalidateCache([this EXCEPT !.spatialIndex = r.index]), FALSE)

GeoSearch_clear(this) ==
  LET r == Index_clear(this.spatialIndex)
  IN IF r.threw THEN Outcome(TRUE, this, FALSE)
     ELSE Outcome(FALSE, invalidateCache([this EXCEPT !.spatialIndex = r.index]), FALSE)

\* clearCache() that leaves the entries in place
GeoSearch_clearCache_keep(this) == this

GeoSearch_clearCache(this) ==
  IF this.cache # None THEN [this EXCEPT !.cache = Some(LRUCache_clear(@[1]))]
  ELSE this

GeoSearch_size(this) == Index_size(this.spatialIndex)
GeoSearch_all(this) == Index_all(this.spatialIndex)
GeoSearch_cacheSize(this) == IF this.cache # None THEN LRUCache_size(this.cache[1]) ELSE 0

(***************************************************************************)
(* State                                                                   *)
(***************************************************************************)
VARIABLES
  search,    \* the engine
  lastCall,  \* the latest call on the facade or on a query, and its outcome
  queries,   \* the query descriptions a caller holds
  out        \* the results of the latest experiment on the pipeline

vars == << search, lastCall, queries, out >>

NoMetadata == [totalMatches |-> 0, returnedCount |-> 0, cached |-> FALSE]

\* a call, with the defaults of the fields it does not use (receiver and
\* result are the positions, among the query descriptions the caller holds,
\* of the builder a builder operation was called on and of the one it
\* returned)
\* (sizeBefore and cacheSizeBefore are search.size and search.cacheSize as
\* read just before the call)
Call(op) ==
  [op |-> op, item |-> "", list |-> << >>, query |-> EmptyState, threw |-> FALSE,
   returned |-> FALSE, items |-> << >>, metadata |-> NoMetadata,
   receiver |-> 0, result |-> 0,
   sizeBefore |-> GeoSearch_size(search),
   cacheSizeBefore |-> GeoSearch_cacheSize(search)]

\* every array of at most n of the given records (the same record may
\* occur twice)
RECURSIVE Arrays(_, _)
Arrays(records, n) ==
  IF n = 0 THEN {<< >>}
  ELSE Arrays(records, n - 1) \cup
       {Append(a, i) : a \in {b \in Arrays(records, n - 1) : Len(b) = n - 1},
                       i \in records}

\* the records the callers of the facade add and remove
FacadeItems == {"g1", "g2"}

\* the arrays given to addMany
AddLists == {<< >>, << "g2", "g1" >>}

(***************************************************************************)
(* The queries the callers of the facade run, each built by a chain from   *)
(* the facade's entry points.                                              *)
(***************************************************************************)
RatingAbove42 == [field |-> "rating", operator |-> "greaterThan", value |-> Num(42)]
HasTagA == [field |-> "tags", operator |-> "includes", value |-> Str(<< 1 >>)]
PriceBelow60 == [field |-> "price", operator |-> "lessThan", value |-> Num(60)]

Where(this, filter) == QueryBuilder_where(this, filter.field, filter.operator, filter.value)

ByRatingDesc == << [field |-> "rating", order |-> "desc"] >>

QNear == QueryBuilder_near(EmptyState, Equator, 1000)
QWhere == Where(EmptyState, RatingAbove42)
QWhereBoth == Where(Where(EmptyState, RatingAbove42), HasTagA)
QWhereBothSwapped == Where(Where(EmptyState, HasTagA), RatingAbove42)
QTopRated == QueryBuilder_limit(QueryBuilder_sortBy(EmptyState, ByRatingDesc), 1)
QScored == QueryBuilder_score(QNear, "ratingTimesTen")

FacadeQueries == {QNear, QWhere, QWhereBoth, QWhereBothSwapped, QTopRated, QScored}

(***************************************************************************)
(* The facade, one call at a time                                          *)
(***************************************************************************)
Init ==
  /\ \E items \in Arrays(FacadeItems, MaxTree), static \in BOOLEAN, useCache \in BOOLEAN,
        cacheSize \in 1..MaxCacheSize :
        /\ search = NewGeoSearch(items, static, useCache, cacheSize)
        /\ lastCall = [Call("new") EXCEPT !.list = items, !.sizeBefore = 0,
                                          !.cacheSizeBefore = 0]
  /\ queries = << >>
  /\ out = [kind |-> "none"]

\* the mutable index has room for n more entries
Room(n) ==
  IF search.isStatic THEN TRUE ELSE Len(search.spatialIndex.tree) + n <= MaxTree

Add(item) ==
  /\ Room(1)
  /\ LET r == GeoSearch_add(search, item)
     IN /\ search' = r.this
        /\ lastCall' = [Call("add") EXCEPT !.item = item, !.threw = r.threw]
  /\ UNCHANGED << queries, out >>

AddMany(items) ==
  /\ Room(Len(items))
  /\ LET r == GeoSearch_addMany(search, items)
     IN /\ search' = r.this
        /\ lastCall' = [Call("addMany") EXCEPT !.list = items, !.threw = r.threw]
  /\ UNCHANGED << queries, out >>

Remove(item) ==
  /\ LET r == GeoSearch_remove(search, item)
     IN /\ search' = r.this
        /\ lastCall' = [Call("remove") EXCEPT !.item = item, !.threw = r.threw,
                                              !.returned = r.result]
  /\ UNCHANGED << queries, out >>

Clear ==
  /\ LET r == GeoSearch_clear(search)
     IN /\ search' = r.this
        /\ lastCall' = [Call("clear") EXCEPT !.threw = r.threw]
  /\ UNCHANGED << queries, out >>

ClearCache ==
  /\ search' = GeoSearch_clearCache(search)
  /\ lastCall' = Call("clearCache")
  /\ UNCHANGED << queries, out >>

Execute(q) ==
  /\ LET r == QueryBuilder_execute(q, search.spatialIndex, search.cache)
     IN /\ search' = [search EXCEPT !.cache = r.cache]
        /\ lastCall' = [Call("execute") EXCEPT !.query = q, !.items = r.items,
                                               !.metadata.cached = r.cached,
                                               !.threw = r.threw]
  /\ UNCHANGED << queries, out >>

ExecuteWithMetadata(q) ==
  /\ LET r == QueryBuilder_executeWithMetadata(q, search.spatialIndex, search.cache)
     IN /\ search' = [search EXCEPT !.cache = r.cache]
        /\ lastCall' = [Call("executeWithMetadata") EXCEPT
                          !.query = q, !.items = r.items, !.metadata = r.metadata,
                          !.threw = r.threw]
  /\ UNCHANGED << queries, out >>

Next ==
  \/ \E item \in FacadeItems : Add(item)
  \/ \E items \in AddLists : AddMany(items)
  \/ \E item \in FacadeItems : Remove(item)
  \/ Clear
  \/ ClearCache
  \/ \E q \in FacadeQueries : Execute(q)
  \/ \E q \in FacadeQueries : ExecuteWithMetadata(q)

Spec == Init /\ [][Next]_vars

(***************************************************************************)
(* Claims                                                                  *)
(***************************************************************************)
ExecOps == {"execute", "executeWithMetadata"}
MutationOps == {"add", "addMany", "remove", "clear"}

CacheOn == search.cache # None

\* the number of cache entries stored under the key of query q
EntriesFor(this, q) ==
  IF this.cache = None THEN 0
  ELSE Cardinality({k \in 1..Len(this.cache[1].entries) :
                      this.cache[1].entries[k].key = getCacheKey(q)})

\* the latest call changed the record set (it returned, and was an add, an
\* addMany, a clear or a remove that returned true)
Mutated(call) ==
  /\ ~call.threw
  /\ \/ call.op \in {"add", "addMany", "clear"}
     \/ call.op = "remove" /\ call.returned

\* C1: on an engine with a cache, executing the same query description
\* (no scoring function) twice with no call in between returns the same
\* array, the second execution is a cache hit and the cache holds exactly
\* one entry for the query; the first execution on a new engine is a miss.
C1_RepeatedQueryIsHit ==
  [][/\ (/\ CacheOn
         /\ lastCall.op \in ExecOps /\ lastCall'.op \in ExecOps
         /\ lastCall'.query = lastCall.query
         /\ lastCall.query.scoreFunction = None)
        => /\ lastCall'.items = lastCall.items
           /\ lastCall'.metadata.cached
           /\ EntriesFor(search', lastCall'.query) = 1
     /\ (lastCall.op = "new" /\ lastCall'.op \in ExecOps)
        => ~lastCall'.metadata.cached]_vars

\* a second execution with metadata reported a hit with a non-empty result
C1_Witness ==
  /\ CacheOn
  /\ lastCall.op = "executeWithMetadata"
  /\ lastCall.metadata.cached
  /\ lastCall.cacheSizeBefore = 1
  /\ Len(lastCall.items) > 0

\* C2: on a mutable engine with a cache, after every add, addMany, clear and
\* every remove that returned true the cache is empty, and an execution that
\* follows is a miss whose result is computed from the updated index.
C2_MutationEmptiesCache ==
  [][(~search.isStatic /\ CacheOn) =>
       /\ Mutated(lastCall') => GeoSearch_cacheSize(search') = 0
       /\ (Mutated(lastCall) /\ lastCall'.op \in ExecOps) =>
            /\ ~lastCall'.metadata.cached
            /\ lastCall'.items = executeInternal(lastCall'.query, search'.spatialIndex)]_vars

\* an add emptied a cache that held an entry
C2_Witness ==
  /\ ~search.isStatic /\ CacheOn
  /\ lastCall.op = "add" /\ ~lastCall.threw
  /\ lastCall.cacheSizeBefore > 0
  /\ GeoSearch_cacheSize(search) = 0

\* C3: on a static engine add, addMany, remove and clear always throw.
C3_StaticMutationThrows ==
  (search.isStatic /\ lastCall.op \in MutationOps) => lastCall.threw

\* a remove on a static engine threw
C3_Witness ==
  search.isStatic /\ lastCall.op = "remove" /\ lastCall.threw

\* the records of a result array, as a set
ItemSet(items) == {items[k].item : k \in 1..Len(items)}

\* the latest call executed a query that keeps every candidate (no attribute
\* filter, no limit, no offset)
KeepsAll(call) ==
  /\ call.op \in ExecOps
  /\ call.query.attributeFilters = << >>
  /\ call.query.limitCount = None
  /\ call.query.offsetCount = 0

\* the stored records whose great-circle distance to the center is at most
\* radiusKm (distances are in metres)
StoredWithin(this, center, radiusKm) ==
  {GeoSearch_all(this)[k] : k \in {j \in 1..GeoSearch_size(this) :
      haversineDistance(center, Point(GeoSearch_all(this)[j])) <= radiusKm * 1000}}

\* C4: a radius query on the mutable index returns exactly the stored
\* records whose great-circle distance to the center is at most the radius.
C4_RadiusQueryExact ==
  (/\ ~search.isStatic
   /\ KeepsAll(lastCall)
   /\ lastCall.query.radiusFilter # None)
  => ItemSet(lastCall.items) =
       StoredWithin(search, lastCall.query.radiusFilter[1].center,
                    lastCall.query.radiusFilter[1].radiusKm)

\* an engine of the other kind (static for mutable, mutable for static)
\* built from the records of this one
OtherKind(this) == NewGeoSearch(GeoSearch_all(this), ~this.isStatic, FALSE, 1)

\* C5: for the same records and the same query without limit and offset, a
\* mutable engine and a static engine return the same set of records.
C5_StaticAndMutableAgree ==
  (/\ lastCall.op \in ExecOps
   /\ lastCall.query.limitCount = None
   /\ lastCall.query.offsetCount = 0)
  => ItemSet(executeInternal(lastCall.query, search.spatialIndex)) =
       ItemSet(executeInternal(lastCall.query, OtherKind(search).spatialIndex))

\* C11: on a mutable engine a remove that returns true leaves size one less
\* than it was, and a remove of the same record that follows it immediately
\* returns false and leaves size as it was.
C11_RemoveOnceThenAbsent ==
  [][~search.isStatic =>
       /\ (lastCall'.op = "remove" /\ lastCall'.returned)
          => GeoSearch_size(search') = GeoSearch_size(search) - 1
       /\ (/\ lastCall.op = "remove" /\ lastCall.returned
           /\ lastCall'.op = "remove" /\ lastCall'.item = lastCall.item)
          => /\ ~lastCall'.returned
             /\ ~lastCall'.threw
             /\ GeoSearch_size(search') = GeoSearch_size(search)]_vars

\* a remove returned true on an engine that held two records and holds one
C11_Witness ==
  /\ ~search.isStatic
  /\ lastCall.op = "remove" /\ lastCall.returned
  /\ lastCall.sizeBefore = 2
  /\ GeoSearch_size(search) = 1

\* C12: an execution, with or without metadata, of a query that has a
\* scoring function leaves the cache exactly as it was (its entries and
\* their order of use, so cacheSize too), is never reported as cached, and
\* returns the result computed from the index.
C12_ScoredQuerySkipsCache ==
  [][(lastCall'.op \in ExecOps /\ lastCall'.query.scoreFunction # None)
       => /\ search'.cache = search.cache
          /\ GeoSearch_cacheSize(search') = lastCall'.cacheSizeBefore
          /\ ~lastCall'.metadata.cached
          /\ lastCall'.items = executeInternal(lastCall'.query, search.spatialIndex)]_vars

\* the scored radius query was executed with metadata while the cache held
\* the result of the same radius query without the scoring function
C12_Witness ==
  /\ CacheOn
  /\ lastCall.op = "executeWithMetadata"
  /\ lastCall.query = QScored
  /\ EntriesFor(search, QNear) = 1
  /\ lastCall.cacheSizeBefore = 1
  /\ GeoSearch_cacheSize(search) = 1
  /\ Len(lastCall.items) > 0

\* C21: on a mutable engine size is the number of records stored: n after
\* a construction with n records, one more after an add, Len(list) more
\* after addMany(list), and 0 after a clear.
C21_SizeCountsRecords ==
  ~search.isStatic =>
    /\ GeoSearch_size(search) = Len(GeoSearch_all(search))
    /\ lastCall.op = "new" => GeoSearch_size(search) = Len(lastCall.list)
    /\ lastCall.op = "add" => GeoSearch_size(search) = lastCall.sizeBefore + 1
    /\ lastCall.op = "addMany" =>
         GeoSearch_size(search) = lastCall.sizeBefore + Len(lastCall.list)
    /\ lastCall.op = "clear" => GeoSearch_size(search) = 0

\* a clear emptied a mutable engine that held two records
C21_Witness ==
  /\ ~search.isStatic
  /\ lastCall.op = "clear" /\ ~lastCall.threw
  /\ lastCall.sizeBefore = 2
  /\ GeoSearch_size(search) = 0

\* C22: clearCache() leaves the cache empty and the records as they were:
\* cacheSize is 0, size and all() are unchanged, and every query executed
\* next is a miss that returns what the query returned before the call.
C22_ClearCacheKeepsRecords ==
  [][lastCall'.op = "clearCache" =>
       /\ GeoSearch_cacheSize(search') = 0
       /\ GeoSearch_size(search') = GeoSearch_size(search)
       /\ GeoSearch_all(search') = GeoSearch_all(search)
       /\ \A q \in FacadeQueries :
            LET before == QueryBuilder_execute(q, search.spatialIndex, search.cache)
                after == QueryBuilder_execute(q, search'.spatialIndex, search'.cache)
            IN /\ ~after.cached
               /\ after.items = before.items]_vars

\* clearCache emptied a cache of two entries on an engine that holds records
C22_Witness ==
  /\ CacheOn
  /\ lastCall.op = "clearCache"
  /\ lastCall.cacheSizeBefore = 2
  /\ GeoSearch_cacheSize(search) = 0
  /\ GeoSearch_size(search) > 0

\* the entries of the engine's cache
CacheEntries(this) == IF this.cache = None THEN << >> ELSE this.cache[1].entries

\* C23: in every state the facade reaches, every cache entry is stored under
\* the key of a query whose uncached execution against the current index
\* returns the entry's value, and a cache hit returns what the uncached
\* execution of its query returns.
C23_CacheCoherent ==
  /\ \A k \in 1..Len(CacheEntries(search)) :
       /\ \E q \in FacadeQueries : getCacheKey(q) = CacheEntries(search)[k].key
       /\ \A q \in FacadeQueries :
            getCacheKey(q) = CacheEntries(search)[k].key =>
              CacheEntries(search)[k].value = executeInternal(q, search.spatialIndex)
  /\ (lastCall.op \in ExecOps /\ lastCall.metadata.cached) =>
       lastCall.items = executeInternal(lastCall.query, search.spatialIndex)

\* a remove that returned false left two entries in the cache of a mutable
\* engine that holds a record, one of them with a non-empty value
C23_Witness ==
  /\ ~search.isStatic
  /\ lastCall.op = "remove" /\ ~lastCall.returned
  /\ GeoSearch_size(search) > 0
  /\ Len(CacheEntries(search)) = 2
  /\ \E k \in 1..2 : Len(CacheEntries(search)[k].value) > 0

\* C24: an execution with metadata served from the cache reports cached =
\* true and totalMatches = returnedCount = the length of the cached array;
\* when it follows a miss of the same query whose limit is smaller than the
\* number of matches, it returns the same items and a different
\* totalMatches.
C24_HitCountsCachedArray ==
  [][(lastCall'.op = "executeWithMetadata" /\ lastCall'.metadata.cached) =>
       /\ lastCall'.metadata.totalMatches = Len(lastCall'.items)
       /\ lastCall'.metadata.returnedCount = Len(lastCall'.items)
       /\ (/\ lastCall.op = "executeWithMetadata"
           /\ lastCall.query = lastCall'.query
           /\ ~lastCall.metadata.cached /\ ~lastCall.threw
           /\ lastCall.query.limitCount # None
           /\ IF lastCall.query.limitCount # None
              THEN lastCall.query.limitCount[1] < lastCall.metadata.totalMatches
              ELSE FALSE)
          => /\ lastCall'.items = lastCall.items
             /\ lastCall'.metadata.totalMatches # lastCall.metadata.totalMatches]_vars

\* the query limited to one record was served from the cache, with
\* totalMatches 1, on an engine that holds two records
C24_Witness ==
  /\ lastCall.op = "executeWithMetadata"
  /\ lastCall.query = QTopRated
  /\ lastCall.metadata.cached
  /\ lastCall.metadata.totalMatches = 1
  /\ Len(lastCall.items) = 1
  /\ GeoSearch_size(search) = 2

\* the record is among the records the engine stores
Stores(this, item) ==
  \E k \in 1..GeoSearch_size(this) : GeoSearch_all(this)[k] = item

\* C25: on a mutable engine remove(record) returns true if and only if the
\* record is stored when it is called, and after a remove that returned true
\* followed by a remove of the same record that returned false no query
\* returns the record.
C25_RemoveTrueIffStored ==
  [][(~search.isStatic /\ lastCall'.op = "remove") =>
       /\ lastCall'.returned <=> Stores(search, lastCall'.item)
       /\ (/\ lastCall.op = "remove" /\ lastCall.returned
           /\ lastCall.item = lastCall'.item
           /\ ~lastCall'.returned)
          => \A q \in FacadeQueries :
               lastCall'.item \notin
                 ItemSet(executeInternal(q, search'.spatialIndex))]_vars

\* C26: on a static engine add, addMany, remove and clear throw and change
\* nothing: size, all(), the index every query reads and the cache, entries
\* and their order of use, are as before the call.
C26_FailedMutationChangesNothing ==
  [][(search.isStatic /\ lastCall'.op \in MutationOps) =>
       /\ lastCall'.threw
       /\ GeoSearch_size(search') = GeoSearch_size(search)
       /\ GeoSearch_all(search') = GeoSearch_all(search)
       /\ search'.spatialIndex = search.spatialIndex
       /\ GeoSearch_cacheSize(search') = GeoSearch_cacheSize(search)
       /\ CacheEntries(search') = CacheEntries(search)
       /\ \A q \in FacadeQueries :
            QueryBuilder_execute(q, search'.spatialIndex, search'.cache) =
              QueryBuilder_execute(q, search.spatialIndex, search.cache)]_vars

\* a clear threw on a static engine of two records whose cache held, and
\* holds, two entries
C26_Witness ==
  /\ search.isStatic
  /\ lastCall.op = "clear" /\ lastCall.threw
  /\ GeoSearch_size(search) = 2
  /\ lastCall.cacheSizeBefore = 2
  /\ GeoSearch_cacheSize(search) = 2

\* C27: on a mutable engine remove(record) of a record that is not stored
\* returns false and leaves size, the stored records and the cache as they
\* were, and every query (without a scoring function) cached before the
\* call is served from the cache after it.
C27_AbsentRemoveKeepsCache ==
  [][(/\ ~search.isStatic
      /\ lastCall'.op = "remove"
      /\ ~Stores(search, lastCall'.item))
     => /\ ~lastCall'.returned /\ ~lastCall'.threw
        /\ GeoSearch_size(search') = GeoSearch_size(search)
        /\ GeoSearch_all(search') = GeoSearch_all(search)
        /\ GeoSearch_cacheSize(search') = GeoSearch_cacheSize(search)
        /\ CacheEntries(search') = CacheEntries(search)
        /\ \A q \in FacadeQueries :
             (q.scoreFunction = None /\ EntriesFor(search, q) = 1) =>
               QueryBuilder_execute(q, search'.spatialIndex, search'.cache).cached]_vars

\* a remove of a record that is not stored returned false on a mutable
\* engine that holds a record and whose cache held, and holds, two entries
C27_Witness ==
  /\ ~search.isStatic
  /\ lastCall.op = "remove" /\ ~lastCall.returned /\ ~lastCall.threw
  /\ ~Stores(search, lastCall.item)
  /\ GeoSearch_size(search) = 1
  /\ lastCall.cacheSizeBefore = 2
  /\ GeoSearch_cacheSize(search) = 2

(***************************************************************************)
(* The query builder, one call at a time.  queries holds the state of every *)
(* QueryBuilder object the caller has a reference to, oldest first; a      *)
(* builder operation is called on one of them and returns a new one.       *)
(***************************************************************************)
\* a clone() that assigns the updated state to the receiver as well
QueryBuilder_new_assign(heap, receiver, state) ==
  Append([heap EXCEPT ![receiver] = state], state)

\* new QueryBuilder(spatialIndex, state, cache) as called by clone(): the
\* new object takes a fresh state record; the state of the receiver is read
\* (spread), never written
QueryBuilder_new(heap, receiver, state) == Append(heap, state)

\* the records of the engine the builders query
BuilderItems == << "g1", "g2", "g3" >>

\* the rectangle of one degree around (0, 0), in centidegrees
UnitBox == [minLat |-> 0 - 100, maxLat |-> 100, minLng |-> 0 - 100, maxLng |-> 100]

BuilderFilters == {RatingAbove42, HasTagA, PriceBelow60}
BuilderSorts == {ByRatingDesc, << [field |-> "distance", order |-> "asc"] >>}

InitBuilder ==
  /\ \E static \in BOOLEAN : search = NewGeoSearch(BuilderItems, static, FALSE, 1)
  /\ lastCall = [Call("new") EXCEPT !.sizeBefore = 0, !.cacheSizeBefore = 0]
  /\ queries = << EmptyState >>
  /\ out = [kind |-> "none"]

\* the caller keeps the builder that the operation op, called on the
\* builder at position i, returned with the given state
Derive(op, i, state) ==
  /\ queries' = QueryBuilder_new(queries, i, state)
  /\ lastCall' = [Call(op) EXCEPT !.receiver = i, !.result = Len(queries) + 1,
                                  !.query = state]
  /\ UNCHANGED << search, out >>

Builder_near(i, center, radiusKm) ==
  /\ Len(queries) < MaxQueries
  /\ Derive("near", i, QueryBuilder_near(queries[i], center, radiusKm))

Builder_withinBounds(i, bounds) ==
  /\ Len(queries) < MaxQueries
  /\ Derive("withinBounds", i, QueryBuilder_withinBounds(queries[i], bounds))

Builder_where(i, filter) ==
  /\ Len(queries) < MaxQueries
  /\ Derive("where", i, Where(queries[i], filter))

Builder_sortBy(i, criteria) ==
  /\ Len(queries) < MaxQueries
  /\ Derive("sortBy", i, QueryBuilder_sortBy(queries[i], criteria))

Builder_score(i, fn) ==
  /\ Len(queries) < MaxQueries
  /\ Derive("score", i, QueryBuilder_score(queries[i], fn))

Builder_limit(i, count) ==
  /\ Len(queries) < MaxQueries
  /\ Derive("limit", i, QueryBuilder_limit(queries[i], count))

Builder_offset(i, count) ==
  /\ Len(queries) < MaxQueries
  /\ Derive("offset", i, QueryBuilder_offset(queries[i], count))

Builder_execute(i) ==
  /\ LET r == QueryBuilder_execute(queries[i], search.spatialIndex, search.cache)
     IN /\ search' = [search EXCEPT !.cache = r.cache]
        /\ lastCall' = [Call("execute") EXCEPT !.receiver = i, !.query = queries[i],
                                               !.items = r.items,
                                               !.metadata.cached = r.cached,
                                               !.threw = r.threw]
  /\ UNCHANGED << queries, out >>

NextBuilder ==
  \/ \E i \in 1..Len(queries) : Builder_near(i, Equator, 1000)
  \/ \E i \in 1..Len(queries) : Builder_withinBounds(i, UnitBox)
  \/ \E i \in 1..Len(queries), filter \in BuilderFilters : Builder_where(i, filter)
  \/ \E i \in 1..Len(queries), criteria \in BuilderSorts : Builder_sortBy(i, criteria)
  \/ \E i \in 1..Len(queries) : Builder_score(i, "ratingTimesTen")
  \/ \E i \in 1..Len(queries) : Builder_limit(i, 1)
  \/ \E i \in 1..Len(queries) : Builder_offset(i, 1)
  \/ \E i \in 1..Len(queries) : Builder_execute(i)

SpecBuilder == InitBuilder /\ [][NextBuilder]_vars

\* C6: the geographic filter set last is the only one in effect: a query
\* returned by withinBounds executes as the same query without a radius
\* filter, and a query returned by near executes as the same query without a
\* bounds filter.
C6_LastGeographicFilterWins ==
  /\ lastCall.op = "withinBounds"
     => executeInternal(lastCall.query, search.spatialIndex) =
          executeInternal([lastCall.query EXCEPT !.radiusFilter = None],
                          search.spatialIndex)
  /\ lastCall.op = "near"
     => executeInternal(lastCall.query, search.spatialIndex) =
          executeInternal([lastCall.query EXCEPT !.boundsFilter = None],
                          search.spatialIndex)

\* C7: a builder operation adds a query description and changes none of the
\* existing ones: every description the caller already held has the same
\* state and the same execution result after the step as before it.
C7_BuilderOpsKeepReceiver ==
  [][/\ Len(queries') >= Len(queries)
     /\ \A i \in 1..Len(queries) :
          /\ queries'[i] = queries[i]
          /\ executeInternal(queries'[i], search'.spatialIndex) =
               executeInternal(queries[i], search.spatialIndex)]_vars

\* the base query is executed after two different one-filter queries were
\* derived from it, and still has no filter and returns every record
C7_Witness ==
  /\ Len(queries) = 3
  /\ queries[2] = Where(EmptyState, RatingAbove42)
  /\ queries[3] = Where(EmptyState, HasTagA)
  /\ lastCall.op = "execute" /\ lastCall.receiver = 1
  /\ queries[1].attributeFilters = << >>
  /\ Len(lastCall.items) = Len(BuilderItems)

\* C20: every record returned by the execution of a query that has a radius
\* filter carries a distance, which is the great-circle distance from the
\* centre of the filter to the record; no record returned by the execution
\* of a query without a radius filter (bounds only, attribute filters only,
\* or none) carries a distance.
C20_DistanceIffRadiusFilter ==
  (lastCall.op = "execute" /\ ~lastCall.threw) =>
    \A k \in 1..Len(lastCall.items) :
      IF lastCall.query.radiusFilter # None
      THEN lastCall.items[k].distance =
             Some(haversineDistance(lastCall.query.radiusFilter[1].center,
                                    Point(lastCall.items[k].item)))
      ELSE lastCall.items[k].distance = None

\* a radius query sorted by distance returned g1, at the centre, first and
\* then g3, 555.97 km away, each with its distance
C20_Witness ==
  /\ lastCall.op = "execute"
  /\ lastCall.query.radiusFilter # None /\ lastCall.query.boundsFilter = None
  /\ lastCall.query.sortCriteria # << >>
  /\ Len(lastCall.items) >= 2
  /\ lastCall.items[1] = [item |-> "g1", distance |-> Some(0)]
  /\ lastCall.items[2].item = "g3"
  /\ lastCall.items[2].distance # None /\ lastCall.items[2].distance[1] > 0

(***************************************************************************)
(* The execution pipeline on its own: an engine is built from an array of  *)
(* records, and one experiment runs queries on it and keeps what they      *)
(* returned in out.                                                        *)
(***************************************************************************)
\* the rectangle from (-1, -1) to (10, 6) degrees, in centidegrees
WideBox == [minLat |-> 0 - 100, maxLat |-> 1000, minLng |-> 0 - 100, maxLng |-> 600]

QBox == QueryBuilder_withinBounds(EmptyState, WideBox)

\* a radius query with radius 0 around the place where g1 is
QNearZero == QueryBuilder_near(EmptyState, Equator, 0)

\* the geographic part of the queries of the experiments
GeoQueries == {EmptyState, QNear, QBox, QNearZero}

NameStartsWithA == [field |-> "name", operator |-> "startsWith", value |-> Str(<< 1 >>)]

QueryFilters == {RatingAbove42, HasTagA, PriceBelow60, NameStartsWithA}

\* the chains of where() calls
FilterLists ==
  {<< >>} \cup {<< f >> : f \in QueryFilters}
          \cup {<< RatingAbove42, HasTagA >>, << PriceBelow60, NameStartsWithA >>,
                << HasTagA, PriceBelow60 >>, << NameStartsWithA, NameStartsWithA >>,
                << PriceBelow60, RatingAbove42, HasTagA >>}

\* q.where(...).where(...) for the filters of the list, in its order
RECURSIVE WhereAll(_, _)
WhereAll(this, filters) ==
  IF filters = << >> THEN this
  ELSE WhereAll(Where(this, Head(filters)), Tail(filters))

Reverse(seq) == [k \in 1..Len(seq) |-> seq[Len(seq) + 1 - k]]

Asc(field) == [field |-> field, order |-> "asc"]
Desc(field) == [field |-> field, order |-> "desc"]

\* the arguments of sortBy
SortLists ==
  {<< Desc("rating") >>, << Asc("price") >>,
   << Desc("rating"), Asc("price") >>, << Desc("price"), Asc("name") >>,
   << Asc("distance") >>, << Desc("distance"), Asc("rating") >>,
   << Desc("score"), Desc("name") >>, << Asc("reviews") >>}

\* the queries that are sorted
SortQueries ==
  {EmptyState, QNear, QScored,
   QueryBuilder_score(Where(QNear, PriceBelow60), "minusDistance")}

\* the queries that are paginated
PageQueries ==
  {EmptyState, QueryBuilder_sortBy(QNear, << Asc("distance") >>),
   QueryBuilder_sortBy(QBox, << Desc("rating"), Asc("price") >>)}

\* the arrays of different records an engine is built from
RecordArrays ==
  {a \in Arrays(Items, MaxRecords) : Cardinality({a[k] : k \in 1..Len(a)}) = Len(a)}

\* the records of a result array, in its order
ItemSeq(items) == [k \in 1..Len(items) |-> items[k].item]

InitQuery ==
  /\ \E items \in RecordArrays, static \in BOOLEAN :
        search = NewGeoSearch(items, static, FALSE, 1)
  /\ lastCall = [Call("new") EXCEPT !.sizeBefore = 0, !.cacheSizeBefore = 0]
  /\ queries = << >>
  /\ out = [kind |-> "none"]

\* execute() on each query of a list, against the engine
ExecuteAll(list) ==
  [j \in 1..Len(list) |->
     QueryBuilder_execute(list[j], search.spatialIndex, search.cache).items]

\* what an experiment leaves in out when the execution of q ended with an
\* exception
Raised(q) == [kind |-> "threw", query |-> q]

\* the same where() calls chained in one order and in the reverse order
RunFilters(geo, filters) ==
  /\ out.kind = "none"
  /\ out' = IF executeThrows(geo, search.spatialIndex)
            THEN Raised(WhereAll(geo, filters))
            ELSE [kind |-> "filters", query |-> WhereAll(geo, filters),
                  results |-> ExecuteAll(<< WhereAll(geo, filters),
                                            WhereAll(geo, Reverse(filters)) >>)]
  /\ UNCHANGED << search, lastCall, queries >>

\* a sorted query (the engine has no cache: execute() is executeInternal();
\* the sorted queries have no bounds filter)
RunSort(base, criteria) ==
  /\ out.kind = "none"
  /\ \E items \in executeInternalOutcomes(QueryBuilder_sortBy(base, criteria),
                                          search.spatialIndex) :
        out' = [kind |-> "sort", query |-> QueryBuilder_sortBy(base, criteria),
                results |-> << items >>]
  /\ UNCHANGED << search, lastCall, queries >>

\* a query in full
RunFull(q) ==
  /\ out.kind = "none"
  /\ out' = IF executeThrows(q, search.spatialIndex) THEN Raised(q)
            ELSE [kind |-> "full", query |-> q, results |-> ExecuteAll(<< q >>)]
  /\ UNCHANGED << search, lastCall, queries >>

\* after a query in full with n results: the query in two pages split at k,
\* with its first k results skipped, and limited to m results
RunPages(k, m) ==
  /\ out.kind = "full"
  /\ k <= Len(out.results[1])
  /\ LET q == out.query
         n == Len(out.results[1])
     IN out' = [kind |-> "pages", query |-> q, k |-> k, m |-> m,
                results |->
                  out.results \o
                  ExecuteAll(<< QueryBuilder_limit(QueryBuilder_offset(q, 0), k),
                                QueryBuilder_limit(QueryBuilder_offset(q, k), n - k),
                                QueryBuilder_offset(q, k),
                                QueryBuilder_limit(q, m) >>)]
  /\ UNCHANGED << search, lastCall, queries >>

\* after a sorted query: the same query on a new engine of the same kind
\* built from the records of the result, in the result's order
RunSortAgain ==
  /\ out.kind = "sort"
  /\ LET again == NewGeoSearch(ItemSeq(out.results[1]), search.isStatic, FALSE, 1)
     IN \E items \in executeInternalOutcomes(out.query, again.spatialIndex) :
          out' = [kind |-> "sortAgain", query |-> out.query,
                  results |-> Append(out.results, items)]
  /\ UNCHANGED << search, lastCall, queries >>

\* the queries that are executed with metadata, before their pagination
CountedQueries ==
  {EmptyState, Where(QNear, PriceBelow60),
   QueryBuilder_sortBy(Where(QBox, RatingAbove42), << Asc("price") >>)}

\* the arguments of limit(), None for a query without the call
Limits == {None} \cup {Some(m) : m \in {0, 1, MaxRecords + 1}}

\* base.offset(count), with .limit(limit) when there is one
Paged(base, count, limit) ==
  IF limit = None THEN QueryBuilder_offset(base, count)
  ELSE QueryBuilder_limit(QueryBuilder_offset(base, count), limit[1])

\* a paginated query executed with metadata, on the engine as it is (no
\* cache) or with a new, empty cache attached
RunMetadata(base, count, limit, useCache) ==
  /\ out.kind = "none"
  /\ out' = IF executeThrows(base, search.spatialIndex)
            THEN Raised(Paged(base, count, limit))
            ELSE [kind |-> "metadata", query |-> Paged(base, count, limit),
                  useCache |-> useCache,
                  answer |-> QueryBuilder_executeWithMetadata(
                               Paged(base, count, limit), search.spatialIndex,
                               IF useCache THEN Some(NewLRUCache(1))
                               ELSE search.cache)]
  /\ UNCHANGED << search, lastCall, queries >>

\* In out, results holds the arrays an experiment got, in the order of its
\* executions: for "filters" the chain and the reversed chain; for "sort"
\* the sorted query, and for "sortAgain" also its second run; for "full" the
\* query, and for "pages" also page (0, k), page (k, n - k), offset(k) and
\* limit(m).

\* the inputs an experiment is drawn from, while none has run
Pending(inputs) == IF out.kind = "none" THEN inputs ELSE {}

\* the split points of the full result
Splits == IF out.kind = "full" THEN 0..Len(out.results[1]) ELSE {}

NextQuery ==
  \/ \E geo \in Pending(GeoQueries), filters \in FilterLists : RunFilters(geo, filters)
  \/ \E base \in Pending(SortQueries), criteria \in SortLists : RunSort(base, criteria)
  \/ RunSortAgain
  \/ \E q \in Pending(PageQueries) : RunFull(q)
  \/ \E k \in Splits, m \in {0, 2, MaxRecords + 1} : RunPages(k, m)
  \/ \E base \in Pending(CountedQueries), count \in 0..(MaxRecords + 1),
        limit \in Limits, useCache \in BOOLEAN :
        RunMetadata(base, count, limit, useCache)

SpecQuery == InitQuery /\ [][NextQuery]_vars

\* the candidates of a query that satisfy every one of its filter conditions
SatisfyAll(this, spatialIndex) ==
  SelectSeq(Candidates(this, spatialIndex),
            LAMBDA c : \A n \in 1..Len(this.attributeFilters) :
                         evaluateFilter(c.item, this.attributeFilters[n].field,
                                        this.attributeFilters[n].operator,
                                        this.attributeFilters[n].value))

\* C8: without sort and pagination, the result of a query is its geographic
\* candidates that satisfy every filter condition, in the candidates' order;
\* with no filter it is all the candidates; and the where() calls chained in
\* the reverse order return the same set of records.
C8_FiltersAreConjunction ==
  out.kind = "filters" =>
    LET items == out.results[1]
        swapped == out.results[2]
    IN /\ items = Format(out.query, SatisfyAll(out.query, search.spatialIndex))
       /\ out.query.attributeFilters = << >>
          => items = Format(out.query, Candidates(out.query, search.spatialIndex))
       /\ ItemSet(swapped) = ItemSet(items)

\* two filters that each keep two of three records keep together only the
\* record that satisfies both, in either order
C8_Witness ==
  /\ out.kind = "filters"
  /\ out.query.attributeFilters = << RatingAbove42, HasTagA >>
  /\ GeoSearch_size(search) = 3
  /\ Len(Format(out.query, ApplyFilters(Candidates(out.query, search.spatialIndex),
                                        << RatingAbove42 >>))) = 2
  /\ Len(Format(out.query, ApplyFilters(Candidates(out.query, search.spatialIndex),
                                        << HasTagA >>))) = 2
  /\ ItemSeq(out.results[1]) = << "g1" >>
  /\ ItemSeq(out.results[2]) = << "g1" >>

\* the value of a sort key of a candidate
Key(c, field) == SortValue(c, c, field)

\* candidates a and b have the same value for every criterion
SameKeys(a, b, sortCriteria) ==
  \A n \in 1..Len(sortCriteria) :
    StrictEquals(Key(a, sortCriteria[n].field), Key(b, sortCriteria[n].field))

\* candidate a goes before candidate b: at the first criterion on which
\* they differ, a is smaller for "asc" and greater for "desc"
Before(a, b, sortCriteria) ==
  \E n \in 1..Len(sortCriteria) :
    /\ SameKeys(a, b, SubSeq(sortCriteria, 1, n - 1))
    /\ IF sortCriteria[n].order = "asc"
       THEN JsLess(Key(a, sortCriteria[n].field), Key(b, sortCriteria[n].field))
       ELSE JsLess(Key(b, sortCriteria[n].field), Key(a, sortCriteria[n].field))

\* C9: the result of a sorted query is a rearrangement of the unsorted
\* candidates in which no record comes after one it goes before by the
\* criteria (first criterion first, the next one on exact equality, the
\* direction as given), records equal on every criterion keep their prior
\* relative order, and sorting the result again gives the same order.
C9_StableMultiKeySort ==
  out.kind \in {"sort", "sortAgain"} =>
    LET cands == Unsorted(out.query, search.spatialIndex)
        criteria == out.query.sortCriteria
        items == out.results[1]
    IN /\ Len(items) = Len(cands)
       /\ \E p \in Permutations(1..Len(cands)) :
            /\ items = Format(out.query, [k \in 1..Len(cands) |-> cands[p[k]]])
            /\ \A j \in 1..Len(cands), k \in 1..Len(cands) :
                 j < k => /\ ~Before(cands[p[k]], cands[p[j]], criteria)
                          /\ SameKeys(cands[p[j]], cands[p[k]], criteria)
                             => p[j] < p[k]
       /\ out.kind = "sortAgain" => out.results[2] = items

\* C10: for every split point k from 0 to the number n of results, the full
\* result is the page (offset 0, limit k) followed by the page (offset k,
\* limit n - k); offset(k) returns the full result without its first k items;
\* limit(m) returns the first m items of the full result, or all of them when
\* there are fewer.
C10_PagesPartitionResult ==
  out.kind = "pages" =>
    LET full == out.results[1]
        page1 == out.results[2]
        page2 == out.results[3]
        dropped == out.results[4]
        limited == out.results[5]
    IN /\ full = page1 \o page2
       /\ Len(page1) = out.k
       /\ dropped = SubSeq(full, out.k + 1, Len(full))
       /\ Len(limited) <= out.m
       /\ limited = SubSeq(full, 1, Min(out.m, Len(full)))

\* a sorted result of three records split after the first one
C10_Witness ==
  /\ out.kind = "pages"
  /\ out.query.sortCriteria # << >>
  /\ Len(out.results[1]) = 3
  /\ out.k = 1
  /\ Len(out.results[2]) = 1 /\ Len(out.results[3]) = 2
  /\ out.results[2][1] # out.results[3][1]

Max(a, b) == IF a > b THEN a ELSE b

\* C15: an execution with metadata that is not served from the cache reports
\* as totalMatches the number of candidates of the geographic filter that
\* satisfy every attribute filter, whatever the limit and the offset, as
\* returnedCount the number of items returned, which is
\* min(limit, max(0, totalMatches - offset)) (no limit: max(0, totalMatches -
\* offset)), and cached = false.
C15_MetadataCounts ==
  out.kind = "metadata" =>
    LET q == out.query
        total == Len(SatisfyAll(q, search.spatialIndex))
        rest == Max(0, total - q.offsetCount)
    IN /\ out.answer.metadata.totalMatches = total
       /\ out.answer.metadata.returnedCount = Len(out.answer.items)
       /\ Len(out.answer.items) =
            IF q.limitCount = None THEN rest ELSE Min(q.limitCount[1], rest)
       /\ ~out.answer.metadata.cached

\* a miss on an engine with a cache: three records match, offset 1 and
\* limit 1 return one of them
C15_Witness ==
  /\ out.kind = "metadata"
  /\ out.useCache
  /\ out.query.offsetCount = 1 /\ out.query.limitCount = Some(1)
  /\ out.answer.metadata.totalMatches = 3
  /\ out.answer.metadata.returnedCount = 1
  /\ out.answer.cache[1].entries # << >>

\* C18: no execution ends with an exception, and a query with radius 0 and
\* a query on an engine that holds no record, mutable or static, return an
\* empty array.
C18_EmptyCasesReturnEmpty ==
  /\ out.kind # "threw"
  /\ (/\ out.kind \in {"filters", "full"}
      /\ \/ GeoSearch_size(search) = 0
         \/ /\ out.query.radiusFilter # None
            /\ out.query.radiusFilter[1].radiusKm = 0)
     => out.results[1] = << >>

(***************************************************************************)
(* The cache under a sequence of executions.  out records the cacheSize     *)
(* the engine was constructed with and keys, the cache keys of the          *)
(* executions that could use the cache since the cache was last emptied,    *)
(* oldest first.                                                            *)
(***************************************************************************)
\* the queries executed: three cacheable ones and a scored one
CacheQueries == {QNear, QWhere, QTopRated, QScored}

\* the cacheSize options: none given, or a number
CacheSizeOptions == {None} \cup {Some(n) : n \in 1..MaxCacheSize}

InitCache ==
  /\ \E static \in BOOLEAN, cacheSize \in CacheSizeOptions :
       /\ search = NewGeoSearch(<< "g1" >>, static, TRUE, cacheSizeOption(cacheSize))
       /\ out = [kind |-> "accesses", cacheSize |-> cacheSizeOption(cacheSize),
                 keys |-> << >>]
  /\ lastCall = [Call("new") EXCEPT !.sizeBefore = 0, !.cacheSizeBefore = 0]
  /\ queries = << >>

\* the keys after an execution of q
Accessed(q) ==
  IF q.scoreFunction = None THEN Append(out.keys, getCacheKey(q)) ELSE out.keys

Cache_execute(q) ==
  /\ Len(out.keys) < MaxAccesses
  /\ LET r == QueryBuilder_execute(q, search.spatialIndex, search.cache)
     IN /\ search' = [search EXCEPT !.cache = r.cache]
        /\ lastCall' = [Call("execute") EXCEPT !.query = q, !.items = r.items,
                                               !.metadata.cached = r.cached,
                                               !.threw = r.threw]
  /\ out' = [out EXCEPT !.keys = Accessed(q)]
  /\ UNCHANGED queries

Cache_executeWithMetadata(q) ==
  /\ Len(out.keys) < MaxAccesses
  /\ LET r == QueryBuilder_executeWithMetadata(q, search.spatialIndex, search.cache)
     IN /\ search' = [search EXCEPT !.cache = r.cache]
        /\ lastCall' = [Call("executeWithMetadata") EXCEPT
                          !.query = q, !.items = r.items, !.metadata = r.metadata,
                          !.threw = r.threw]
  /\ out' = [out EXCEPT !.keys = Accessed(q)]
  /\ UNCHANGED queries

\* add(): on a mutable engine it empties the cache, on a static one it throws
Cache_add(item) ==
  /\ Room(1)
  /\ LET r == GeoSearch_add(search, item)
     IN /\ search' = r.this
        /\ lastCall' = [Call("add") EXCEPT !.item = item, !.threw = r.threw]
        /\ out' = [out EXCEPT !.keys = IF r.threw THEN @ ELSE << >>]
  /\ UNCHANGED queries

Cache_clearCache ==
  /\ search' = GeoSearch_clearCache(search)
  /\ lastCall' = Call("clearCache")
  /\ out' = [out EXCEPT !.keys = << >>]
  /\ UNCHANGED queries

NextCache ==
  \/ \E q \in CacheQueries : Cache_execute(q)
  \/ \E q \in CacheQueries : Cache_executeWithMetadata(q)
  \/ Cache_add("g2")
  \/ Cache_clearCache

SpecCache == InitCache /\ [][NextCache]_vars

\* the distinct keys of a sequence of accesses, the least recently accessed
\* first
RECURSIVE ByRecency(_)
ByRecency(keys) ==
  IF keys = << >> THEN << >>
  ELSE LET last == keys[Len(keys)]
       IN Append(SelectSeq(ByRecency(SubSeq(keys, 1, Len(keys) - 1)),
                           LAMBDA k : k # last),
                 last)

\* the n most recently accessed keys (all of them when there are fewer)
MostRecent(keys, n) ==
  LET r == ByRecency(keys)
  IN {r[k] : k \in {j \in 1..Len(r) : j > Len(r) - n}}

\* the keys the cache holds
CachedKeys(this) ==
  {this.cache[1].entries[k].key : k \in 1..Len(this.cache[1].entries)}

\* C13: the cache never holds more entries than the cacheSize the engine was
\* constructed with (100 when the option is not given); after executions of
\* more distinct cacheable queries than cacheSize since the cache was last
\* emptied, it holds exactly cacheSize entries, and before that one entry
\* for each distinct query.
C13_CacheSizeBounded ==
  /\ GeoSearch_cacheSize(search) <= out.cacheSize
  /\ GeoSearch_cacheSize(search) = Min(Len(ByRecency(out.keys)), out.cacheSize)

\* three distinct queries were executed on an engine with cacheSize 2
C13_Witness ==
  /\ out.cacheSize = 2
  /\ Len(ByRecency(out.keys)) = 3
  /\ GeoSearch_cacheSize(search) = 2

\* C14: the cache holds exactly the cacheSize most recently accessed keys,
\* where an access is an execution of a cacheable query, hit or miss; so an
\* execution is a hit exactly when its key is among the cacheSize keys most
\* recently accessed before it, and the entry evicted is the one accessed
\* longest ago.
C14_EvictsLeastRecentlyUsed ==
  /\ CachedKeys(search) = MostRecent(out.keys, out.cacheSize)
  /\ (/\ lastCall.op \in ExecOps
      /\ lastCall.query.scoreFunction = None
      /\ out.keys # << >>)
     => lastCall.metadata.cached =
          (getCacheKey(lastCall.query) \in
             MostRecent(SubSeq(out.keys, 1, Len(out.keys) - 1), out.cacheSize))

\* with cacheSize 2: A (miss), B (miss), A (hit), C (miss), then A is a hit
C14_Witness ==
  /\ out.cacheSize = 2
  /\ out.keys = << getCacheKey(QNear), getCacheKey(QWhere), getCacheKey(QNear),
                  getCacheKey(QTopRated), getCacheKey(QNear) >>
  /\ lastCall.op \in ExecOps
  /\ lastCall.metadata.cached
  /\ CachedKeys(search) = {getCacheKey(QNear), getCacheKey(QTopRated)}

(***************************************************************************)
(* The filter evaluator: one condition (field, operator, value) is          *)
(* evaluated on one record, or run as the only where() of a query over an   *)
(* engine that holds every record.                                          *)
(***************************************************************************)
FilterOperator ==
  {"equals", "notEquals", "greaterThan", "greaterThanOrEqual", "lessThan",
   "lessThanOrEqual", "includes", "includesAll", "includesAny", "startsWith",
   "endsWith", "contains", "between", "in", "notIn"}

\* the attributes a condition names: a number, a string, an array, a number
\* that two records lack, and one that no record has
FilterFields == {"rating", "name", "tags", "reviews", "category"}

\* the values a condition is given
FilterValues ==
  {Num(42), Num(45), Num(3), Str(<< 1 >>), Str(<< >>), Undef, Null,
   Arr(<< >>), Arr(<< Num(45) >>), Arr(<< Num(40), Num(45) >>),
   Arr(<< Num(42), Num(42) >>), Arr(<< Num(45), Num(40) >>),
   Arr(<< Num(3), Num(5) >>), Arr(<< Null, Num(45) >>),
   Arr(<< Str(<< 1 >>), Str(<< 3 >>) >>), Arr(<< Str(<< 1 >>) >>)}

AllItems == << "g1", "g2", "g3", "g4" >>

InitFilter ==
  /\ search = NewGeoSearch(AllItems, FALSE, FALSE, 1)
  /\ lastCall = [Call("new") EXCEPT !.sizeBefore = 0, !.cacheSizeBefore = 0]
  /\ queries = << >>
  /\ \E item \in Items, field \in FilterFields, operator \in FilterOperator,
        value \in FilterValues :
        out = [kind |-> "condition", item |-> item, field |-> field,
               operator |-> operator, value |-> value]

\* evaluateFilter(item, field, operator, value)
Evaluate ==
  /\ out.kind = "condition"
  /\ out' = [out EXCEPT !.kind = "evaluated"] @@
            [result |-> evaluateFilter(out.item, out.field, out.operator, out.value)]
  /\ UNCHANGED << search, lastCall, queries >>

\* search.all().where(field, operator, value).execute()
RunWhere ==
  /\ out.kind = "condition"
  /\ out' = [kind |-> "where", field |-> out.field, operator |-> out.operator,
             value |-> out.value,
             results |-> ExecuteAll(<< QueryBuilder_where(EmptyState, out.field,
                                                         out.operator, out.value) >>)]
  /\ UNCHANGED << search, lastCall, queries >>

NextFilter == Evaluate \/ RunWhere

SpecFilter == InitFilter /\ [][NextFilter]_vars

\* an array of two numbers
IsRange(value) ==
  /\ isArray(value) /\ Len(value.v) = 2
  /\ value.v[1].t = "number" /\ value.v[2].t = "number"

\* the operator is given a field value and a filter value of the types it
\* is for (in and notIn test a field value against an array; a record that
\* lacks the field gives them no value to test)
Supports(operator, fieldValue, value) ==
  CASE operator \in {"greaterThan", "greaterThanOrEqual", "lessThan", "lessThanOrEqual"} ->
         BothNumbers(fieldValue, value) \/ BothStrings(fieldValue, value)
    [] operator = "includes" -> isArray(fieldValue)
    [] operator \in {"includesAll", "includesAny"} -> isArray(fieldValue) /\ isArray(value)
    [] operator \in {"startsWith", "endsWith", "contains"} -> BothStrings(fieldValue, value)
    [] operator = "between" -> fieldValue.t = "number" /\ IsRange(value)
    [] operator \in {"in", "notIn"} -> isArray(value) /\ fieldValue.t # "undefined"
    [] OTHER -> TRUE

\* C16: evaluateFilter returns a boolean for every operator, field value and
\* filter value, and every operator other than equals and notEquals returns
\* false when it is given a type it does not support, a record that lacks
\* the field included.
C16_UnsupportedTypeIsFalse ==
  out.kind = "evaluated" =>
    /\ out.result \in BOOLEAN
    /\ ~Supports(out.operator, Field(out.item, out.field), out.value)
       => out.result = FALSE

\* C17: over an engine that holds every record, a where() on a numeric
\* attribute with a numeric value returns exactly the records that have a
\* number there which is > the value for greaterThan, >= for
\* greaterThanOrEqual, < for lessThan, <= for lessThanOrEqual, and with a
\* range [lo, hi] of numbers exactly those with lo <= number <= hi for
\* between.
C17_ComparisonBoundaries ==
  out.kind = "where" =>
    LET Numeric == {i \in Items : Field(i, out.field).t = "number"}
        f(i) == Field(i, out.field).v
        returned == ItemSet(out.results[1])
    IN /\ (out.value.t = "number" /\ out.operator = "greaterThan")
          => returned = {i \in Numeric : f(i) > out.value.v}
       /\ (out.value.t = "number" /\ out.operator = "greaterThanOrEqual")
          => returned = {i \in Numeric : f(i) >= out.value.v}
       /\ (out.value.t = "number" /\ out.operator = "lessThan")
          => returned = {i \in Numeric : f(i) < out.value.v}
       /\ (out.value.t = "number" /\ out.operator = "lessThanOrEqual")
          => returned = {i \in Numeric : f(i) <= out.value.v}
       /\ (IsRange(out.value) /\ out.operator = "between")
          => returned = {i \in Numeric : /\ out.value.v[1].v <= f(i)
                                         /\ f(i) <= out.value.v[2].v}

\* rating greaterThan 4.2 returns g1 and g3 (4.5) and not g2 (4.2 exactly)
C17_Witness ==
  /\ out.kind = "where"
  /\ out.field = "rating" /\ out.operator = "greaterThan" /\ out.value = Num(42)
  /\ ItemSet(out.results[1]) = {"g1", "g3"}
  /\ rating("g2") = 42

(***************************************************************************)
(* The index contract (ISpatialIndex) called directly, one operation at a   *)
(* time, on the index of an engine without a cache.                         *)
(***************************************************************************)
\* the records of an array, as a set
ItemSeqSet(items) == {items[k] : k \in 1..Len(items)}

\* the arrays given to load
LoadLists == Arrays({"g1", "g3"}, MaxTree)

InitIndex ==
  /\ \E items \in Arrays(FacadeItems, MaxTree), static \in BOOLEAN :
        search = NewGeoSearch(items, static, FALSE, 1)
  /\ lastCall = [Call("new") EXCEPT !.sizeBefore = 0, !.cacheSizeBefore = 0]
  /\ queries = << >>
  /\ out = [kind |-> "none"]

LoadIndex(items) ==
  /\ Room(Len(items))
  /\ LET r == Index_load(search.spatialIndex, items)
     IN /\ search' = [search EXCEPT !.spatialIndex = r.index]
        /\ lastCall' = [Call("load") EXCEPT !.list = items, !.threw = r.threw]
  /\ UNCHANGED << queries, out >>

AddToIndex(item) ==
  /\ Room(1)
  /\ LET r == Index_add(search.spatialIndex, item)
     IN /\ search' = [search EXCEPT !.spatialIndex = r.index]
        /\ lastCall' = [Call("add") EXCEPT !.item = item, !.threw = r.threw]
  /\ UNCHANGED << queries, out >>

RemoveFromIndex(item) ==
  /\ LET r == Index_remove(search.spatialIndex, item)
     IN /\ search' = [search EXCEPT !.spatialIndex = r.index]
        /\ lastCall' = [Call("remove") EXCEPT !.item = item, !.threw = r.threw,
                                              !.returned = r.result]
  /\ UNCHANGED << queries, out >>

ClearIndex ==
  /\ LET r == Index_clear(search.spatialIndex)
     IN /\ search' = [search EXCEPT !.spatialIndex = r.index]
        /\ lastCall' = [Call("clear") EXCEPT !.threw = r.threw]
  /\ UNCHANGED << queries, out >>

NextIndex ==
  \/ \E items \in LoadLists : LoadIndex(items)
  \/ \E item \in FacadeItems : AddToIndex(item)
  \/ \E item \in FacadeItems : RemoveFromIndex(item)
  \/ ClearIndex

SpecIndex == InitIndex /\ [][NextIndex]_vars

\* C19: after load(R), on a mutable or a static index, whatever it held
\* before, all() holds the records of R and no other, and size is the
\* length of R.
C19_LoadReplaces ==
  lastCall.op = "load" =>
    /\ ItemSeqSet(GeoSearch_all(search)) = ItemSeqSet(lastCall.list)
    /\ GeoSearch_size(search) = Len(lastCall.list)

\* the criteria other than 'distance'
NoDistance(sortCriteria) == SelectSeq(sortCriteria, LAMBDA c : c.field # "distance")

\* 1 for ascending, -1 for descending
Sign(criterion) == IF criterion.order = "asc" THEN 1 ELSE 0 - 1

\* C29: a sorted radius query whose first key is 'distance' returns its
\* records in the order of their computed distances; a sorted query with a
\* scoring function whose first key is 'score' returns the records that
\* passed the attribute filters in the order of their computed scores; and
\* on a query without a radius filter the key 'distance' orders nothing:
\* the result is that of the same query sorted by its other keys (the
\* candidate order when there is none).
C29_VirtualSortKeys ==
  out.kind = "sort" =>
    LET q == out.query
        items == out.results[1]
        first == q.sortCriteria[1]
        passed == SatisfyAll(q, search.spatialIndex)
        score(k) == Apply(q.scoreFunction[1], items[k].item, items[k].distance)
    IN /\ (q.radiusFilter # None /\ first.field = "distance") =>
            \A k \in 1..(Len(items) - 1) :
              Sign(first) * items[k].distance[1] <= Sign(first) * items[k + 1].distance[1]
       /\ (q.scoreFunction # None /\ first.field = "score") =>
            /\ ItemSet(items) = {passed[k].item : k \in 1..Len(passed)}
            /\ \A k \in 1..(Len(items) - 1) :
                 Sign(first) * score(k) <= Sign(first) * score(k + 1)
       /\ (q.radiusFilter = None /\ NoDistance(q.sortCriteria) # q.sortCriteria) =>
            items = executeInternal(QueryBuilder_sortBy(q, NoDistance(q.sortCriteria)),
                                    search.spatialIndex)

\* a radius query sorted by ascending distance returned g1 before g3 from a
\* mutable index that stores g3 before g1
C29_Witness ==
  /\ out.kind = "sort"
  /\ ~search.isStatic
  /\ GeoSearch_all(search) = << "g3", "g1" >>
  /\ out.query = QueryBuilder_sortBy(QNear, << Asc("distance") >>)
  /\ ItemSeq(out.results[1]) = << "g1", "g3" >>

(***************************************************************************)
(* Cache keys: on an engine with a cache, the executions that follow an    *)
(* empty cache.  In out, runs holds them in order: the query, the items    *)
(* returned and whether they came from the cache.                          *)
(***************************************************************************)
\* queries that differ from one another in the order of the attribute
\* filters, in the geographic filter, in the sort criteria, in the limit or
\* in the offset
KeyQueries ==
  {QWhereBoth, QWhereBothSwapped,
   QNear, QNearZero, QBox,
   QueryBuilder_sortBy(EmptyState, ByRatingDesc),
   QueryBuilder_sortBy(EmptyState, << Asc("rating") >>),
   QTopRated,
   QueryBuilder_limit(QueryBuilder_sortBy(EmptyState, ByRatingDesc), 2),
   QueryBuilder_offset(QTopRated, 1)}

InitKey ==
  /\ \E static \in BOOLEAN, cacheSize \in CacheSizeOptions :
       search = NewGeoSearch(BuilderItems, static, TRUE, cacheSizeOption(cacheSize))
  /\ lastCall = [Call("new") EXCEPT !.list = BuilderItems, !.sizeBefore = 0,
                                    !.cacheSizeBefore = 0]
  /\ queries = << >>
  /\ out = [kind |-> "runs", runs |-> << >>]

Ran(q, items, cached) ==
  Append(out.runs, [query |-> q, items |-> items, cached |-> cached])

Key_execute(q) ==
  /\ Len(out.runs) < 2
  /\ LET r == QueryBuilder_execute(q, search.spatialIndex, search.cache)
     IN /\ search' = [search EXCEPT !.cache = r.cache]
        /\ lastCall' = [Call("execute") EXCEPT !.query = q, !.items = r.items,
                                               !.metadata.cached = r.cached,
                                               !.threw = r.threw]
        /\ out' = [out EXCEPT !.runs = Ran(q, r.items, r.cached)]
  /\ UNCHANGED queries

Key_executeWithMetadata(q) ==
  /\ Len(out.runs) < 2
  /\ LET r == QueryBuilder_executeWithMetadata(q, search.spatialIndex, search.cache)
     IN /\ search' = [search EXCEPT !.cache = r.cache]
        /\ lastCall' = [Call("executeWithMetadata") EXCEPT
                          !.query = q, !.items = r.items, !.metadata = r.metadata,
                          !.threw = r.threw]
        /\ out' = [out EXCEPT !.runs = Ran(q, r.items, r.metadata.cached)]
  /\ UNCHANGED queries

Key_clearCache ==
  /\ out.runs # << >>
  /\ search' = GeoSearch_clearCache(search)
  /\ lastCall' = Call("clearCache")
  /\ out' = [out EXCEPT !.runs = << >>]
  /\ UNCHANGED queries

NextKey ==
  \/ \E q \in KeyQueries : Key_execute(q)
  \/ \E q \in KeyQueries : Key_executeWithMetadata(q)
  \/ Key_clearCache

SpecKey == InitKey /\ [][NextKey]_vars

\* b has the attribute filters of a in another order, and is a otherwise
OnlyFilterOrderDiffers(a, b) ==
  /\ a.attributeFilters # b.attributeFilters
  /\ b = [a EXCEPT !.attributeFilters = b.attributeFilters]
  /\ Len(a.attributeFilters) = Len(b.attributeFilters)
  /\ \E p \in Permutations(1..Len(a.attributeFilters)) :
       b.attributeFilters = [k \in 1..Len(a.attributeFilters) |-> a.attributeFilters[p[k]]]

RaceQueries == {QNear, QWhere}

InitRace ==
  /\ \E items \in Arrays({"g1"}, 1), serialized \in BOOLEAN :
       /\ search = NewGeoSearch(items, FALSE, TRUE, MaxCacheSize)
       /\ lastCall = [Call("new") EXCEPT !.list = items, !.sizeBefore = 0,
                                         !.cacheSizeBefore = 0]
       /\ out = [kind |-> "race", serialized |-> serialized, pending |-> FALSE,
                 expected |-> search]
  /\ queries = << >>

Race_add(item) ==
  /\ ~out.pending
  /\ Room(1)
  /\ LET r == Index_add(search.spatialIndex, item)
     IN /\ search' = [search EXCEPT !.spatialIndex = r.index]
        /\ lastCall' = [Call("add") EXCEPT !.item = item]
        /\ out' = [out EXCEPT !.pending = TRUE,
                              !.expected = GeoSearch_add(search, item).this]
  /\ UNCHANGED queries

Race_addMany(items) ==
  /\ ~out.pending
  /\ Room(Len(items))
  /\ LET r == Index_addMany(search.spatialIndex, items)
     IN /\ search' = [search EXCEPT !.spatialIndex = r.index]
        /\ lastCall' = [Call("addMany") EXCEPT !.list = items]
        /\ out' = [out EXCEPT !.pending = TRUE,
                              !.expected = GeoSearch_addMany(search, items).this]
  /\ UNCHANGED queries

\* remove(): a remove that returned false is complete after its first step
Race_remove(item) ==
  /\ ~out.pending
  /\ LET r == Index_remove(search.spatialIndex, item)
     IN /\ search' = [search EXCEPT !.spatialIndex = r.index]
        /\ lastCall' = [Call("remove") EXCEPT !.item = item, !.returned = r.result]
        /\ out' = [out EXCEPT !.pending = r.result,
                              !.expected = GeoSearch_remove(search, item).this]
  /\ UNCHANGED queries

Race_clear ==
  /\ ~out.pending
  /\ LET r == Index_clear(search.spatialIndex)
     IN /\ search' = [search EXCEPT !.spatialIndex = r.index]
        /\ lastCall' = Call("clear")
        /\ out' = [out EXCEPT !.pending = TRUE,
                              !.expected = GeoSearch_clear(search).this]
  /\ UNCHANGED queries

\* the second step of the mutation in progress
Race_invalidateCache ==
  /\ out.pending
  /\ search' = invalidateCache(search)
  /\ lastCall' = Call("invalidateCache")
  /\ out' = [out EXCEPT !.pending = FALSE]
  /\ UNCHANGED queries

\* a query: when the calls are serialized, never while a mutation is in
\* progress
Race_execute(q) ==
  /\ out.serialized => ~out.pending
  /\ LET r == QueryBuilder_execute(q, search.spatialIndex, search.cache)
     IN /\ search' = [search EXCEPT !.cache = r.cache]
        /\ lastCall' = [Call("execute") EXCEPT !.query = q, !.items = r.items,
                                               !.metadata.cached = r.cached,
                                               !.threw = r.threw]
  /\ UNCHANGED << queries, out >>

NextRace ==
  \/ \E item \in FacadeItems : Race_add(item)
  \/ \E items \in AddLists : Race_addMany(items)
  \/ \E item \in FacadeItems : Race_remove(item)
  \/ Race_clear
  \/ Race_invalidateCache
  \/ \E q \in RaceQueries : Race_execute(q)

SpecRace == InitRace /\ [][NextRace]_vars

\* the latest call was served from the cache an array that the index, as it
\* is now, does not give
StaleHit ==
  /\ lastCall.op = "execute"
  /\ lastCall.metadata.cached
  /\ lastCall.items # executeInternal(lastCall.query, search.spatialIndex)

\* C30: a facade mutation updates the index first and invalidates the cache
\* second: between the two steps the index is already the one the call
\* leaves, and after the second the engine is the one the call leaves when
\* it runs alone; a query is served a stale cached result only when it runs
\* between the two steps, which takes calls that are not serialized; when
\* every call runs to completion before the next starts no query is.
C30_StaleOnlyBetweenSteps ==
  out.kind = "race" =>
    /\ StaleHit => (~out.serialized /\ out.pending)
    /\ out.pending =>
         /\ search.spatialIndex = out.expected.spatialIndex
         /\ lastCall.op \in MutationOps \cup {"execute"}
    /\ lastCall.op = "invalidateCache" =>
         (~out.pending /\ search = out.expected)

\* calls that are not serialized: a mutation has put g1 in the index and
\* has not yet invalidated the cache, and the query on the rating was served
\* the array cached before it, without g1
C30_Witness ==
  /\ out.kind = "race"
  /\ ~out.serialized /\ out.pending
  /\ StaleHit
  /\ lastCall.query = QWhere
  /\ Stores(search, "g1")
  /\ "g1" \notin ItemSet(lastCall.items)

====
